---- MODULE Spec2Model ----
(***************************************************************************)
(* A model of the dlplus TPDD1/TPDD2 drive emulator (src/main.c): the      *)
(* Operation-mode and FDC-mode receivers, the DME handshake detector, the  *)
(* directory cache and the file handlers, over a byte-level serial line.   *)
(***************************************************************************)
EXTENDS Integers, Sequences, FiniteSets, TLC

\* ------------------------------------------------------------------------
\* Bounds of the model
\* ------------------------------------------------------------------------

\* the client adds raw bytes to the line only while at most this many wait
MaxBacklog == 2
\* longest payload of the pattern frames the checksum is applied to
MaxCkLen == 128
\* the client stops writing to a file of this length
MaxFileLen == 2
MaxReadLen == 130
MaxDepth == 3

\* ------------------------------------------------------------------------
\* Protocol constants
\* ------------------------------------------------------------------------

OPR_CMD_SYNC == 90
FDC_CMD_EOL == 13
MODE_FDC == 0
MODE_OPR == 1

REQ_DIRENT == 0
REQ_OPEN == 1
REQ_CLOSE == 2
REQ_READ == 3
REQ_WRITE == 4
REQ_DELETE == 5
REQ_FORMAT == 6
REQ_STATUS == 7
REQ_FDC == 8
REQ_CONDITION == 12
REQ_RENAME == 13
REQ_VERSION == 35
REQ_CACHE == 48
REQ_MEM_WRITE == 49
REQ_MEM_READ == 50
REQ_SYSINFO == 51
REQ_EXEC == 52

RET_READ == 16
RET_DIRENT == <<17, 28>>
RET_STD == <<18, 1>>
RET_VERSION == <<20, 15>>
RET_CONDITION == <<21, 1>>
RET_CACHE == <<56, 1>>
RET_MEM_READ == 57
RET_SYSINFO == <<58, 6>>
RET_EXEC == <<59, 3>>

DIRENT_SET_NAME == 0
DIRENT_GET_FIRST == 1
DIRENT_GET_NEXT == 2
DIRENT_GET_PREV == 3
DIRENT_CLOSE == 4

F_OPEN_NONE == 0
F_OPEN_WRITE == 1
F_OPEN_APPEND == 2
F_OPEN_READ == 3

ERR_SUCCESS == 0
ERR_NO_FILE == 16
ERR_NO_FNAME == 48
ERR_PARAM == 54
ERR_FMT_MISMATCH == 55
ERR_FMT_INTERRUPT == 70
ERR_SECTOR_NUM == 74
ERR_READ_TIMEOUT == 75
ERR_WRITE_PROTECT == 80
ERR_NO_DISK == 112
ERR_DEFECTIVE == 131

ERR_FDC_SUCCESS == 0
ERR_FDC_LSN_LO == 17
ERR_FDC_LSN_HI == 18
ERR_FDC_PSN_HI == 19
ERR_FDC_PARAM == 33
ERR_FDC_COMMAND == 193
ERR_FDC_NO_DISK == 209

\* the FDC-mode command letters M D F G A R S B C W X
FDC_SET_MODE == 77
FDC_CONDITION == 68
FDC_FORMAT == 70
FDC_FORMAT_NV == 71
FDC_READ_ID == 65
FDC_READ_SECTOR == 82
FDC_SEARCH_ID == 83
FDC_WRITE_ID == 66
FDC_WRITE_ID_NV == 67
FDC_WRITE_SECTOR == 87
FDC_WRITE_SECTOR_NV == 88
FDC_CMDS == {77, 68, 70, 71, 65, 82, 83, 66, 67, 87, 88}

C_CC_VMIN == 1
C_CC_VTIME == 5

TPDD_FILENAME_LEN == 24
REQ_RW_DATA_MAX == 128

Byte == 0..255

\* ------------------------------------------------------------------------
\* Byte and sequence helpers
\* ------------------------------------------------------------------------

Min(a, b) == IF a < b THEN a ELSE b
Max(a, b) == IF a > b THEN a ELSE b

Drop(s, n) == SubSeq(s, n + 1, Len(s))
Take(s, n) == SubSeq(s, 1, Min(n, Len(s)))

Rep(x, n) == [i \in 1..n |-> x]

\* ------------------------------------------------------------------------
\* Framing and checksum
\* ------------------------------------------------------------------------

\* the loop of checksum(): uint8_t i counts up to uint8_t l, uint16_t s sums
\* (s is unsigned; reading it in the loop test keeps the running sum evaluated)
RECURSIVE ChecksumLoop(_, _, _, _)
ChecksumLoop(b, i, l, s) ==
    IF i < l /\ s >= 0 THEN ChecksumLoop(b, i + 1, l, (s + b[i + 1]) % 65536) ELSE s

checksum_nocomplement(b) ==
    LET l == (2 + b[2]) % 256
    IN  ChecksumLoop(b, 0, l, 0) % 256

\* uint8_t checksum(unsigned char* b): ~(s & 0xFF) of the sum of b[0..1+b[1]]
checksum(b) ==
    LET l == (2 + b[2]) % 256
        s == ChecksumLoop(b, 0, l, 0)
    IN  255 - (s % 256)

\* a response block as the ret_*() functions build it in gb and write it
Packet(cmd, payload) ==
    LET b == <<cmd, Len(payload)>> \o payload
    IN  b \o <<checksum(b)>>

\* void ret_fdc_std(e, s, l): "%02X%02X%04X" as 8 ASCII characters
HexDigit(n) == IF n < 10 THEN 48 + n ELSE 55 + n
Hex2(n) == <<HexDigit((n \div 16) % 16), HexDigit(n % 16)>>
FdcStd(e, s, l) == Hex2(e) \o Hex2(s) \o Hex2(l \div 256) \o Hex2(l % 256)

\* ------------------------------------------------------------------------
\* C strings and host names (sequences of character codes)
\* ------------------------------------------------------------------------

SP == 32
DOT == 46
SLASH == 47
TILDE == 126
USCORE == 95

\* the C string held in a zero-terminated buffer
RECURSIVE CStrLen(_, _)
CStrLen(buf, i) ==
    IF i > Len(buf) \/ buf[i] = 0 THEN i - 1 ELSE CStrLen(buf, i + 1)
CStr(buf) == SubSeq(buf, 1, CStrLen(buf, 1))

\* buf[i] for a 0-based index into a zero-filled buffer holding a C string
At(str, i) == IF i >= 0 /\ i < Len(str) THEN str[i + 1] ELSE 0

\* strrchr(s, c) - s as a 0-based index, -1 when c does not occur
RECURSIVE LastIndexFrom(_, _, _)
LastIndexFrom(s, c, i) ==
    IF i = 0 THEN -1
    ELSE IF s[i] = c THEN i - 1 ELSE LastIndexFrom(s, c, i - 1)
strrchr(s, c) == LastIndexFrom(s, c, Len(s))

toupper(c) == IF c >= 97 /\ c <= 122 THEN c - 32 ELSE c

\* host names of the model
N_A_BA == <<65, 46, 66, 65>>
N_B_DO == <<66, 46, 68, 79>>
N_N_DO == <<78, 46, 68, 79>>
N_X_DO == <<88, 46, 68, 79>>
N_SUB == <<83, 85, 66>>
N_S == <<83>>
N_L == <<76>>
N_DOTDOT == <<46, 46>>
N_DOS100 == <<68, 79, 83, 49, 48, 48, 46, 67, 79>>

TSDOS_ROOT_LABEL == <<48, 58, 32, 32, 32, 32>>
TSDOS_PARENT_LABEL == <<94, 32, 32, 32, 32, 32>>
TSDOS_DIR_LABEL == <<60, 62>>

magic_files == {N_DOS100}

FE_FLAGS_NONE == 0
FE_FLAGS_DIR == 1

ATTR_DEF == 70

\* ------------------------------------------------------------------------
\* The host file system
\* ------------------------------------------------------------------------

ShareRoot == <<N_S>>
app_lib_dir == <<SLASH>> \o N_L

DirNode(order, readable) ==
    [kind |-> "dir", data |-> <<>>, order |-> order, readable |-> readable]
FileNode(data) ==
    [kind |-> "file", data |-> data, order |-> <<>>, readable |-> TRUE]
\* a symbolic link whose target is missing: listed by readdir, stat fails
DanglingNode ==
    [kind |-> "dangling", data |-> <<>>, order |-> <<>>, readable |-> TRUE]

\* split a path name at '/' into its components
RECURSIVE SplitPath(_, _, _)
SplitPath(s, i, cur) ==
    IF i > Len(s) THEN <<cur>>
    ELSE IF s[i] = SLASH THEN <<cur>> \o SplitPath(s, i + 1, <<>>)
    ELSE SplitPath(s, i + 1, Append(cur, s[i]))

RECURSIVE Walk(_, _)
Walk(path, comps) ==
    IF comps = <<>> THEN path
    ELSE LET c == Head(comps)
         IN  IF c = <<>> \/ c = <<DOT>> THEN Walk(path, Tail(comps))
             ELSE IF c = N_DOTDOT
                  THEN Walk(IF path = <<>> THEN path
                            ELSE SubSeq(path, 1, Len(path) - 1), Tail(comps))
             ELSE Walk(Append(path, c), Tail(comps))

\* the absolute path a host name denotes for a process whose directory is wd
Resolve(wd, name) ==
    IF name = <<>> THEN <<<<>>>>
    ELSE Walk(IF name[1] = SLASH THEN <<>> ELSE wd, SplitPath(name, 1, <<>>))

Parent(path) == SubSeq(path, 1, Len(path) - 1)
Leaf(path) == path[Len(path)]

Exists(f, path) == path \in DOMAIN f
IsDir(f, path) == Exists(f, path) /\ f[path].kind = "dir"
IsFile(f, path) == Exists(f, path) /\ f[path].kind = "file"

RemoveName(order, n) == SelectSeq(order, LAMBDA x : x # n)

\* a new node at path (its directory exists)
FsAdd(f, path, node) ==
    [p \in DOMAIN f \cup {path} |->
        IF p = path THEN node
        ELSE IF p = Parent(path)
             THEN [f[p] EXCEPT !.order = Append(@, Leaf(path))]
        ELSE f[p]]

FsRemove(f, path) ==
    [p \in DOMAIN f \ {path} |->
        IF p = Parent(path)
        THEN [f[p] EXCEPT !.order = RemoveName(@, Leaf(path))]
        ELSE f[p]]

\* ------------------------------------------------------------------------
\* State
\* ------------------------------------------------------------------------

VARIABLES
    cfg,            \* the settings main() fixes before the command loop
    line,           \* bytes the client has sent that the emulator has not read
    tx,             \* the blocks the last emulator step wrote to the client
    operation_mode,
    in_dme,
    ch,             \* ch[0], the byte kept by the DME probe
    bank,
    fs,             \* the host file system
    pwd,            \* the directory of the process
    cwd,            \* the cwd[] string, as update_cwd() last set it
    dir_depth,
    dme_cwd,
    file_list,      \* the directory cache
    cursor,         \* the position in the cache of the last entry returned
    f_static,       \* the static FILE_ENTRY f of make_file_entry()
    cur_file,
    o_file_h,       \* -1, or the descriptor of the open file
    o_file,         \* the path and the offset behind o_file_h
    pdd2_condition,
    mem,            \* ioport[], cpuram[], ga[] and ram[]: the bytes stored so far
    f_open_mode,
    crashed,        \* the process was ended by a fault
    img,            \* the disk image file
    disk_img_fd,    \* the descriptor open_disk_image() last stored, -1 at the start
    fdc_wait,       \* the FDC handler that waits in read_client_tty(), if any
    last,           \* history: what the last step was
    termRun,        \* history: FDC requests with a terminator in a row
    dme_done,       \* history: the probe counter has reached 2 at some time
    valid_p,        \* history: the last physical sector in 0..79 an FDC command named
    last_open,      \* history: the mode of the last open answered with success,
                    \* F_OPEN_NONE once a close or an open attempt followed it
    client_termios, \* c_cc[VMIN] and c_cc[VTIME] of the client tty
    ck_in,          \* a block handed to checksum()
    ck_out

vars == <<cfg, line, tx, operation_mode, in_dme, ch, bank, fs, pwd, cwd,
          dir_depth, dme_cwd, file_list, cursor, f_static, cur_file,
          o_file_h, o_file, pdd2_condition, mem, f_open_mode, crashed, img,
          fdc_wait, last, termRun, dme_done, valid_p, last_open,
          disk_img_fd, client_termios, ck_in, ck_out>>

model == cfg.model
base_len == cfg.base_len
ext_len == cfg.ext_len
pad_fn == cfg.pad_fn
default_attr == cfg.default_attr
dme_en == cfg.dme_en
enable_magic_files == cfg.enable_magic_files
upcase == cfg.upcase
tildes == cfg.tildes
share_path == cfg.share_path
dme_root_label == TSDOS_ROOT_LABEL
dme_parent_label == TSDOS_PARENT_LABEL
dme_dir_label == TSDOS_DIR_LABEL

\* cfnl = base_len + 1 + ext_len, or the full field
cfnl ==
    IF base_len < 1 \/ base_len + 1 + ext_len > TPDD_FILENAME_LEN
    THEN TPDD_FILENAME_LEN ELSE base_len + 1 + ext_len

\* ------------------------------------------------------------------------
\* File name translation
\* ------------------------------------------------------------------------

\* a char[25] buffer holding the string s
Buf(s) == [i \in 1..(TPDD_FILENAME_LEN + 1) |-> IF i <= Len(s) THEN s[i] ELSE 0]
\* buf[i] = c, i 0-based; a store outside the array leaves it as it is
BufSet(buf, i, c) == IF i >= 0 /\ i < Len(buf) THEN [buf EXCEPT ![i + 1] = c] ELSE buf

\* printf "%-*.*s" with width w and precision p
PadTrunc(s, w, p) ==
    LET t == Take(s, p)
    IN  t \o Rep(SP, Max(0, w - Len(t)))

NullEntry == [local_fname |-> <<>>, client_fname |-> <<>>, attr |-> 0,
              len |-> 0, flags |-> FE_FLAGS_NONE]

\* make_file_entry(), no extension field: the name is cut to ol characters
make_file_entry_plain(namep, il, ol) ==
    LET plain == Buf(PadTrunc(namep, ol, ol))
    IN  CStr(IF tildes /\ il > ol THEN BufSet(plain, ol - 1, TILDE) ELSE plain)

\* make_file_entry(): the base name bn[] of bl characters
make_file_entry_bn(namep, isdir, il, dp, ol, bl) ==
    LET bn0 == Take(namep, bl)
        bn1 == Buf([i \in 1..Len(bn0) |-> IF bn0[i] = DOT THEN USCORE ELSE bn0[i]])
        tcond == IF tildes /\ dp # 0 THEN dp > bl
                 ELSE il > ol \/ (isdir /\ il > ol - ext_len - 1)
        bn2 == IF tcond THEN BufSet(bn1, bl - 1, TILDE) ELSE bn1
    IN  IF dme_en /\ isdir /\ namep = N_DOTDOT
        THEN [i \in 1..Len(bn2) |->
                IF i <= base_len THEN At(dme_parent_label, i - 1) ELSE bn2[i]]
        ELSE bn2

\* make_file_entry(): the extension en[] of el0 characters
make_file_entry_en(namep, isdir, dp, x, el0) ==
    LET en0 == Buf(IF el0 # 0 THEN Take(Drop(namep, dp + 1), el0) ELSE <<>>)
        en1 == IF tildes /\ x > el0 THEN BufSet(en0, el0 - 1, TILDE) ELSE en0
    IN  IF dme_en /\ isdir
        THEN [i \in 1..Len(en1) |->
                IF i <= ext_len + 1 THEN At(dme_dir_label, i - 1) ELSE en1[i]]
        ELSE en1

\* make_file_entry(): snprintf of base, dot and extension, then toupper
make_file_entry_join(dp, el, bn, en) ==
    LET base == Take(IF pad_fn THEN PadTrunc(CStr(bn), base_len, base_len)
                     ELSE CStr(bn), cfnl - 1)
        dotted == IF dp # 0 \/ pad_fn THEN base \o <<DOT>> ELSE base
        joined == dotted \o Take(CStr(en), el)
    IN  IF upcase THEN [i \in 1..Len(joined) |-> toupper(joined[i])] ELSE joined

\* make_file_entry(): the fields of f, given the lengths il, ol, x, el0 and
\* the position dp of the dot
make_file_entry_fields(namep, attr, len, flags, il, dp, ol, x, el0) ==
    LET isdir == flags = FE_FLAGS_DIR
        dmedir == dme_en /\ isdir
        bl == IF dp # 0 /\ dp < base_len THEN dp ELSE base_len
    IN  [local_fname |-> namep,
         client_fname |->
            IF ext_len = 0 THEN make_file_entry_plain(namep, il, ol)
            ELSE make_file_entry_join(dp, IF dmedir THEN ext_len ELSE el0,
                    make_file_entry_bn(namep, isdir, il, dp, ol, bl),
                    make_file_entry_en(namep, isdir, dp, x, el0)),
         attr |-> attr,
         len |-> IF ext_len # 0 /\ dmedir THEN 0 ELSE len,
         flags |-> flags]

\* FILE_ENTRY* make_file_entry(namep, attr, len, flags): the new value of f
make_file_entry(namep, attr, len, flags) ==
    LET il == Len(namep) % 256
        dot == strrchr(namep, DOT)
        dp == IF flags = FE_FLAGS_NONE /\ dot >= 0 THEN dot % 256 ELSE 0
        ol == IF base_len # 0
              THEN base_len + (IF ext_len # 0 THEN 1 + ext_len ELSE 0)
              ELSE TPDD_FILENAME_LEN
        x == (il - dp - 1) % 256
    IN  make_file_entry_fields(namep, attr, len, flags, il, dp, ol, x,
            IF dp # 0 THEN (IF x < ext_len THEN x ELSE ext_len) ELSE 0)

\* the name is returned as it came
collapse_padded_fname_keep(b) == b

\* char* collapse_padded_fname(char* fname): fname is the char[25] buffer
collapse_padded_fname(b) ==
    IF ~pad_fn \/ base_len = 0 THEN b
    ELSE LET RECURSIVE Scan(_)
             Scan(i) == IF i > 1 /\ At(b, i - 1) = SP THEN Scan(i - 1) ELSE i
             i == Scan(base_len)
         IN  IF At(b, base_len + 1) = dme_dir_label[1]
                /\ At(b, base_len + 2) = dme_dir_label[2]
             THEN BufSet(b, i, 0)
             ELSE BufSet(BufSet(BufSet(BufSet(b,
                        i, At(b, base_len)),
                        i + 1, At(b, base_len + 1)),
                        i + 2, At(b, base_len + 2)),
                        i + 3, 0)

\* int check_magic_file(char* b): 0 when b is one of the magic names
check_magic_file(b) ==
    IF ~enable_magic_files THEN 1
    ELSE IF b \in magic_files THEN 0 ELSE 1

\* ------------------------------------------------------------------------
\* The state a handler works on, and the blocks it writes
\* ------------------------------------------------------------------------

NullPtr == [ptr |-> "null", idx |-> 0]
StaticPtr == [ptr |-> "static", idx |-> 0]
ListPtr(i) == IF i = 0 THEN NullPtr ELSE [ptr |-> "list", idx |-> i]

\* the state at the start of a handler; gb holds the received block
Cur(rest, gb) ==
    [operation_mode |-> operation_mode, in_dme |-> in_dme, ch |-> ch,
     bank |-> bank, fs |-> fs, pwd |-> pwd, cwd |-> cwd,
     dir_depth |-> dir_depth, dme_cwd |-> dme_cwd, file_list |-> file_list,
     cursor |-> cursor, f_static |-> f_static, cur_file |-> cur_file,
     o_file_h |-> o_file_h, o_file |-> o_file,
     pdd2_condition |-> pdd2_condition, mem |-> mem,
     f_open_mode |-> f_open_mode, crashed |-> crashed,
     img |-> img, disk_img_fd |-> disk_img_fd, wait |-> fdc_wait,
     client_termios |-> client_termios,
     line |-> rest, tx |-> <<>>, gb |-> gb, probe |-> -2]

\* the entry a FILE_ENTRY* points to
Deref(s, p) ==
    IF p.ptr = "static" THEN s.f_static
    ELSE IF p.ptr = "list" /\ p.idx <= Len(s.file_list) THEN s.file_list[p.idx]
    ELSE NullEntry

\* data stored at the start of gb
Overlay(buf, data) ==
    [i \in 1..Max(Len(buf), Len(data)) |->
        IF i <= Len(data) THEN data[i] ELSE buf[i]]

\* write_client_tty(gb, n) after gb was filled with pkt
write_client_tty(s, pkt) ==
    [s EXCEPT !.tx = Append(@, pkt), !.gb = Overlay(@, pkt)]

\* void ret_std(unsigned char err)
ret_std(s, err) ==
    LET gb == <<RET_STD[1], RET_STD[2], err>>
    IN  write_client_tty(s, Take(gb \o <<checksum(gb)>>, gb[2] + 3))

\* ------------------------------------------------------------------------
\* Directory cache
\* ------------------------------------------------------------------------

\* void update_cwd(): cwd[] becomes the path of the process directory
update_cwd(s) == [s EXCEPT !.cwd = s.pwd]

\* void cd_share_path()
cd_share_path(s) ==
    IF share_path[s.bank + 1] = <<>> THEN s
    ELSE IF s.cwd = share_path[s.bank + 1] THEN s
    ELSE update_cwd(IF IsDir(s.fs, share_path[s.bank + 1])
                    THEN [s EXCEPT !.pwd = share_path[s.bank + 1]] ELSE s)

\* the directory cache of dir_list.c
file_list_clear_all(s) == [s EXCEPT !.file_list = <<>>, !.cursor = 0]
add_file(s, e) == [s EXCEPT !.f_static = e, !.file_list = Append(@, e)]
get_first_file(s) ==
    [s EXCEPT !.cursor = IF s.file_list = <<>> THEN 0 ELSE 1]
get_next_file(s) ==
    [s EXCEPT !.cursor = IF @ < Len(s.file_list) THEN @ + 1 ELSE 0]
get_prev_file(s) ==
    [s EXCEPT !.cursor = IF @ > 1 THEN @ - 1 ELSE 0]
find_file(list, name, attr) ==
    IF \E i \in 1..Len(list) : list[i].client_fname = name
    THEN CHOOSE i \in 1..Len(list) :
            /\ list[i].client_fname = name
            /\ \A j \in 1..(i - 1) : list[j].client_fname # name
    ELSE 0

\* the loop  while (read_next_dirent(dir, m));  over the names readdir gives
RECURSIVE read_next_dirent(_, _, _)
\* one pass of the loop: the name n that readdir gave is the host file path
read_next_dirent_name(s, names, m, n, path) ==
    LET isdir == IsDir(s.fs, path)
        flags == IF isdir THEN FE_FLAGS_DIR ELSE FE_FLAGS_NONE
        size == IF isdir THEN 0
                ELSE IF Len(s.fs[path].data) > 65535 THEN 0
                ELSE Len(s.fs[path].data)
    IN  IF ~(isdir \/ IsFile(s.fs, path))
        THEN (IF m # 0 THEN ret_std(s, ERR_NO_FILE) ELSE s)
        ELSE IF flags = FE_FLAGS_DIR /\ s.in_dme < 2
        THEN read_next_dirent(s, Tail(names), m)
        ELSE IF base_len # 0 /\ n[1] = DOT
        THEN read_next_dirent(s, Tail(names), m)
        ELSE read_next_dirent(
               add_file(s, make_file_entry(n, default_attr, size, flags)),
               Tail(names), m)

read_next_dirent(s, names, m) ==
    IF names = <<>> THEN s
    ELSE read_next_dirent_name(s, names, m, Head(names),
                               Resolve(s.pwd, Head(names)))

\* void update_file_list(int m)
update_file_list_read(s3, opened, m) ==
    IF ~opened
    THEN (IF m # 0 THEN ret_std(s3, ERR_NO_DISK) ELSE s3)
    ELSE read_next_dirent(s3, <<<<DOT>>, N_DOTDOT>> \o s3.fs[s3.pwd].order, m)

update_file_list_parent(s2) ==
    IF s2.dir_depth # 0
    THEN add_file(s2, make_file_entry(N_DOTDOT, default_attr, 0, FE_FLAGS_DIR))
    ELSE s2

update_file_list_opendir(s1, m) ==
    update_file_list_read(update_file_list_parent(file_list_clear_all(s1)),
                          IsDir(s1.fs, s1.pwd) /\ s1.fs[s1.pwd].readable, m)

update_file_list(s, m) ==
    update_file_list_opendir(IF model = 2 THEN cd_share_path(s) ELSE s, m)

\* int ret_dirent(FILE_ENTRY* ep)
ret_dirent(s, ep) ==
    LET e == Deref(s, ep)
        cf == Buf(e.client_fname)
        name == IF ep.ptr = "null" THEN Rep(0, TPDD_FILENAME_LEN)
                ELSE IF base_len # 0
                THEN [i \in 1..TPDD_FILENAME_LEN |->
                        IF i <= base_len + 3 /\ cf[i] # 0 THEN cf[i] ELSE SP]
                ELSE Take(cf, TPDD_FILENAME_LEN)
        tail == IF ep.ptr = "null" THEN <<0, 0, 0>>
                ELSE <<e.attr, (e.len \div 256) % 256, e.len % 256>>
        free == IF model = 2 THEN 160 ELSE 80
        gb == <<RET_DIRENT[1], RET_DIRENT[2]>> \o name \o tail \o <<free>>
    IN  write_client_tty(s, gb \o <<checksum(gb)>>)

\* ------------------------------------------------------------------------
\* dirent
\* ------------------------------------------------------------------------

ALLOW_RET == 1
NO_RET == 0

\* n bytes of buf from the 0-based index from
Sub(buf, from, n) == [i \in 1..n |-> At(buf, from + i - 1)]

\* for (p = strrchr(filename,' '); p >= filename && *p == ' '; p--) *p = 0
RECURSIVE TrimLoop(_, _)
TrimLoop(b, p) ==
    IF p >= 0 /\ At(b, p) = SP THEN TrimLoop(BufSet(b, p, 0), p - 1) ELSE b
TrimTrailing(b) == TrimLoop(b, strrchr(CStr(b), SP))

\* the path  "../" * dir_depth  followed by name
RECURSIVE UpPath(_, _)
UpPath(depth, name) ==
    IF depth = 0 THEN name ELSE <<DOT, DOT, SLASH>> \o UpPath(depth - 1, name)

\* stat(name) succeeds
StatOk(s, name) ==
    LET path == Resolve(s.pwd, name)
    IN  IsDir(s.fs, path) \/ IsFile(s.fs, path)

\* void dirent_set_name()
dirent_set_name_stat(s, m, t, found) ==
    IF ~found
    THEN ret_dirent([s EXCEPT !.f_static = m, !.cur_file = StaticPtr], NullPtr)
    ELSE ret_dirent(
           [s EXCEPT !.f_static =
                       [m EXCEPT !.local_fname = t,
                                 !.len = Len(s.fs[Resolve(s.pwd, t)].data) % 65536],
                     !.cur_file = StaticPtr],
           StaticPtr)

\* the name is a magic file: stat() it in the share root, then in app_lib_dir
dirent_set_name_try(s, m, t) == dirent_set_name_stat(s, m, t, StatOk(s, t))

dirent_set_name_magic(s, m) ==
    IF StatOk(s, UpPath(s.dir_depth, m.local_fname))
    THEN dirent_set_name_try(s, m, UpPath(s.dir_depth, m.local_fname))
    ELSE dirent_set_name_try(s, m, app_lib_dir \o <<SLASH>> \o m.local_fname)

\* the name is in no list: the entry of a new file or directory
dirent_set_name_new(s, filename, fileattr) ==
    LET f == IF At(filename, base_len + 1) = dme_dir_label[1]
                /\ At(filename, base_len + 2) = dme_dir_label[2]
             THEN FE_FLAGS_DIR ELSE FE_FLAGS_NONE
    IN  ret_dirent(
          [s EXCEPT !.f_static = make_file_entry(
                        CStr(collapse_padded_fname(filename)), fileattr, 0, f),
                    !.cur_file = StaticPtr],
          NullPtr)

dirent_set_name_find(s, filename, fileattr, name, found) ==
    IF found # 0
    THEN ret_dirent([s EXCEPT !.cur_file = ListPtr(found)], ListPtr(found))
    ELSE IF check_magic_file(name) = 0
    THEN dirent_set_name_magic(s, make_file_entry(name, fileattr, 0, FE_FLAGS_NONE))
    ELSE dirent_set_name_new(s, filename, fileattr)

\* dirent_set_name() once the name was copied from gb+2 and trimmed
dirent_set_name_copy(s, filename, fileattr) ==
    dirent_set_name_find(s, filename, fileattr, CStr(filename),
                         find_file(s.file_list, CStr(filename), fileattr))

dirent_set_name_list(s) ==
    dirent_set_name_copy(s, TrimTrailing(Buf(CStr(Sub(s.gb, 2, TPDD_FILENAME_LEN)))),
                         At(s.gb, 26))

\* void dirent_set_name()
dirent_set_name(s0) == dirent_set_name_list(update_file_list(s0, ALLOW_RET))

\* ret_dirent(p) for the entry p that get_first/next/prev_file() returned
ret_dirent_cursor(s1) == ret_dirent(s1, ListPtr(s1.cursor))

dirent_get_first_keep(s0) ==
    ret_dirent_cursor(get_first_file(update_file_list(s0, ALLOW_RET)))

\* void dirent_get_first()
dirent_get_first(s0) ==
    [ret_dirent_cursor(get_first_file(update_file_list(s0, ALLOW_RET)))
        EXCEPT !.in_dme = 0]

\* int req_dirent()
req_dirent(s) ==
    LET a == At(s.gb, 27)
    IN  CASE a = DIRENT_SET_NAME -> dirent_set_name(s)
          [] a = DIRENT_GET_FIRST -> dirent_get_first(s)
          [] a = DIRENT_GET_NEXT -> ret_dirent_cursor(get_next_file(s))
          [] a = DIRENT_GET_PREV -> ret_dirent_cursor(get_prev_file(s))
          [] OTHER -> s

\* ------------------------------------------------------------------------
\* TS-DOS directory extension
\* ------------------------------------------------------------------------

\* void update_dme_cwd()
update_dme_cwd(s0) ==
    IF ~dme_en THEN s0
    ELSE LET s == update_cwd(s0)
             leaf == IF s.cwd = <<>> THEN <<>> ELSE Leaf(s.cwd)
             up == IF upcase THEN [i \in 1..Len(leaf) |-> toupper(leaf[i])] ELSE leaf
             txt == Take(PadTrunc(up, 6, 6), base_len)
         IN  IF s.dir_depth # 0
             THEN [s EXCEPT !.cwd = IF s.cwd = <<>> THEN <<>>
                                    ELSE Append(Parent(s.cwd), up),
                            !.dme_cwd = Take(Overlay(@, txt \o <<0>>), 7)]
             ELSE [s EXCEPT !.dme_cwd = Overlay(@, Take(dme_root_label, 6))]

ret_dme_cwd_short(s) ==
    IF ~dme_en THEN s
    ELSE LET gb == <<RET_STD[1], RET_STD[2], 0>>
         IN  write_client_tty(s, gb \o <<checksum(gb)>>)

\* void ret_dme_cwd()
ret_dme_cwd(s) ==
    IF ~dme_en THEN s
    ELSE LET gb == <<RET_STD[1], 11, 0>> \o Take(s.dme_cwd, 6) \o <<0, 0, 0, 0>>
         IN  write_client_tty(s, gb \o <<checksum(gb)>>)

\* the probe of req_fdc(): one read with VMIN 0, VTIME 1 into ch[0]
ProbeRead(s) ==
    IF s.line = <<>> THEN [s EXCEPT !.ch = 0, !.probe = -1]
    ELSE [s EXCEPT !.ch = Head(s.line), !.probe = Head(s.line),
                   !.line = Tail(s.line)]

\* void client_tty_vmt(int m, int t): a negative value stands for the default
client_tty_vmt(s, m, t) ==
    [s EXCEPT !.client_termios = [vmin |-> IF m < 0 THEN C_CC_VMIN ELSE m,
                                  vtime |-> IF t < 0 THEN C_CC_VTIME ELSE t]]

\* the fast timeout is left in place after the probe
req_fdc_no_restore(s0) ==
    IF model = 2 THEN ret_std(s0, ERR_PARAM)
    ELSE LET p == IF s0.in_dme < 2 /\ dme_en
                  THEN ProbeRead(client_tty_vmt(s0, 0, 1)) ELSE s0
             s == IF p.probe # -2 /\ p.ch = FDC_CMD_EOL
                  THEN [p EXCEPT !.in_dme = @ + 1] ELSE p
         IN  IF s.in_dme > 1 THEN ret_dme_cwd(s)
             ELSE [s EXCEPT !.operation_mode = MODE_FDC]

\* void req_fdc()
req_fdc(s0) ==
    IF model = 2 THEN ret_std(s0, ERR_PARAM)
    ELSE LET p == IF s0.in_dme < 2 /\ dme_en
                  THEN client_tty_vmt(ProbeRead(client_tty_vmt(s0, 0, 1)), -1, -1)
                  ELSE s0
             s == IF p.probe # -2 /\ p.ch = FDC_CMD_EOL
                  THEN [p EXCEPT !.in_dme = @ + 1] ELSE p
         IN  IF s.in_dme > 1 THEN ret_dme_cwd(s)
             ELSE [s EXCEPT !.operation_mode = MODE_FDC]

\* ------------------------------------------------------------------------
\* Files
\* ------------------------------------------------------------------------

\* what o_file_h refers to: the name the file was opened by, the file offset,
\* and the contents once the name was unlinked while the file is open
NoFile == [path |-> <<>>, pos |-> 0, gone |-> FALSE, data |-> <<>>, closed |-> FALSE]
OpenFile(path, pos) ==
    [path |-> path, pos |-> pos, gone |-> FALSE, data |-> <<>>, closed |-> FALSE]
FD == 3

\* the bytes of the open file
OpenData(s) ==
    IF s.o_file.gone THEN s.o_file.data
    ELSE IF IsFile(s.fs, s.o_file.path) THEN s.fs[s.o_file.path].data
    ELSE <<>>

\* unlink(path): an open file lives on without its name
Unlink(s, path) ==
    [s EXCEPT !.fs = FsRemove(@, path),
              !.o_file = IF s.o_file_h >= 0 /\ ~@.gone /\ @.path = path
                            /\ IsFile(s.fs, path)
                         THEN [@ EXCEPT !.gone = TRUE, !.data = s.fs[path].data]
                         ELSE @]

\* close(o_file_h); o_file_h = -1  when a file is open
CloseOpen(s) ==
    IF s.o_file_h >= 0 THEN [s EXCEPT !.o_file_h = -1, !.o_file = NoFile] ELSE s

\* a handler dereferences cur_file, which is NULL
Fault(s) == [s EXCEPT !.crashed = TRUE]

\* the directory a new name would be made in exists
CanCreate(s, path) ==
    /\ path # <<>>
    /\ ~Exists(s.fs, path)
    /\ Leaf(path) # <<>>
    /\ IsDir(s.fs, Parent(path))

req_open_write_trunc(s1, e, path) ==
    IF IsFile(s1.fs, path)
    THEN ret_std([s1 EXCEPT !.fs = [@ EXCEPT ![path].data = <<>>],
                            !.o_file_h = FD,
                            !.o_file = OpenFile(path, 0),
                            !.f_open_mode = F_OPEN_WRITE], ERR_SUCCESS)
    ELSE IF ~CanCreate(s1, path) THEN ret_std(s1, ERR_FMT_MISMATCH)
    ELSE ret_std([s1 EXCEPT !.fs = FsAdd(@, path, FileNode(<<>>)),
                            !.o_file_h = FD,
                            !.o_file = OpenFile(path, 0),
                            !.f_open_mode = F_OPEN_WRITE], ERR_SUCCESS)

\* open(local_fname, O_CREAT|O_TRUNC|O_WRONLY|O_EXCL, 0666) and what follows
req_open_write(s1, e, path) ==
    IF ~CanCreate(s1, path) THEN ret_std(s1, ERR_FMT_MISMATCH)
    ELSE ret_std([s1 EXCEPT !.fs = FsAdd(@, path, FileNode(<<>>)),
                            !.o_file_h = FD,
                            !.o_file = OpenFile(path, 0),
                            !.f_open_mode = F_OPEN_WRITE], ERR_SUCCESS)

\* int req_open()
req_open(s) ==
    LET omode == At(s.gb, 2)
        s1 == CloseOpen(s)
        e == Deref(s1, s1.cur_file)
        path == Resolve(s1.pwd, e.local_fname)
        isdir == e.flags = FE_FLAGS_DIR
        up == At(e.local_fname, 0) = DOT /\ At(e.local_fname, 1) = DOT
    IN  CASE omode = F_OPEN_WRITE ->
                IF s1.cur_file.ptr = "null" THEN Fault(s1)
                ELSE IF isdir
                THEN IF CanCreate(s1, path)
                     THEN ret_std([s1 EXCEPT !.fs = FsAdd(@, path, DirNode(<<>>, TRUE))],
                                  ERR_SUCCESS)
                     ELSE ret_std(s1, ERR_FMT_MISMATCH)
                ELSE req_open_write(s1, e, path)
          [] omode = F_OPEN_APPEND ->
                IF s1.cur_file.ptr = "null" THEN ret_std(s1, ERR_FMT_MISMATCH)
                ELSE IF ~IsFile(s1.fs, path) THEN ret_std(s1, ERR_FMT_MISMATCH)
                ELSE ret_std([s1 EXCEPT !.o_file_h = FD,
                                 !.o_file = OpenFile(path, Len(s1.fs[path].data)),
                                 !.f_open_mode = omode], ERR_SUCCESS)
          [] omode = F_OPEN_READ ->
                IF s1.cur_file.ptr = "null" THEN ret_std(s1, ERR_NO_FILE)
                ELSE IF isdir
                THEN LET done == IF up THEN s1.dir_depth > 0 ELSE TRUE
                         err == done /\ ~IsDir(s1.fs, path)
                         s2 == IF done /\ ~err
                               THEN [s1 EXCEPT !.pwd = path,
                                       !.dir_depth = IF up THEN @ - 1 ELSE @ + 1]
                               ELSE s1
                     IN  ret_std(update_dme_cwd(s2),
                                 IF err THEN ERR_FMT_MISMATCH ELSE ERR_SUCCESS)
                ELSE IF ~(IsFile(s1.fs, path) \/ IsDir(s1.fs, path))
                THEN ret_std(s1, ERR_NO_FILE)
                ELSE ret_std([s1 EXCEPT !.o_file_h = FD,
                                 !.o_file = OpenFile(path, 0),
                                 !.f_open_mode = omode], ERR_SUCCESS)
          [] OTHER -> ret_std(s, ERR_PARAM)

req_read_rewind(s) ==
    IF s.o_file_h < 0 THEN ret_std(s, ERR_NO_FNAME)
    ELSE IF s.f_open_mode # F_OPEN_READ THEN ret_std(s, ERR_FMT_MISMATCH)
    ELSE LET chunk == Take(OpenData(s), REQ_RW_DATA_MAX)
             gb == <<RET_READ, Len(chunk)>> \o chunk
         IN  write_client_tty(s, gb \o <<checksum(gb)>>)

\* a read that does not look at the mode the file was opened in
req_read_any_mode(s) ==
    IF s.o_file_h < 0 THEN ret_std(s, ERR_NO_FNAME)
    ELSE LET data == OpenData(s)
             chunk == Take(Drop(data, s.o_file.pos), REQ_RW_DATA_MAX)
             gb == <<RET_READ, Len(chunk)>> \o chunk
         IN  write_client_tty(
                [s EXCEPT !.o_file.pos = @ + Len(chunk)],
                gb \o <<checksum(gb)>>)

\* void req_read()
req_read(s) ==
    IF s.o_file_h < 0 THEN ret_std(s, ERR_NO_FNAME)
    ELSE IF s.f_open_mode # F_OPEN_READ THEN ret_std(s, ERR_FMT_MISMATCH)
    ELSE IF s.o_file.closed \/ (~s.o_file.gone /\ IsDir(s.fs, s.o_file.path))
    THEN \* read() returns -1: gb[1] = 255 is overwritten by the checksum
         write_client_tty(s, <<RET_READ, checksum(<<RET_READ, 255>>)>>)
    ELSE LET data == OpenData(s)
             chunk == Take(Drop(data, s.o_file.pos), REQ_RW_DATA_MAX)
             gb == <<RET_READ, Len(chunk)>> \o chunk
         IN  write_client_tty(
                [s EXCEPT !.o_file.pos = @ + Len(chunk)],
                gb \o <<checksum(gb)>>)

\* void req_write()
req_write(s) ==
    IF s.o_file_h < 0 THEN ret_std(s, ERR_NO_FNAME)
    ELSE IF s.f_open_mode # F_OPEN_WRITE /\ s.f_open_mode # F_OPEN_APPEND
    THEN ret_std(s, ERR_FMT_MISMATCH)
    ELSE IF s.o_file.closed THEN ret_std(s, ERR_SECTOR_NUM)
    ELSE LET n == At(s.gb, 1)
             data == Sub(s.gb, 2, n)
             path == s.o_file.path
             old == OpenData(s)
             at == IF s.f_open_mode = F_OPEN_APPEND THEN Len(old) ELSE s.o_file.pos
             new == Take(old, at) \o data \o Drop(old, at + n)
         IN  ret_std([s EXCEPT !.fs = IF ~s.o_file.gone /\ IsFile(s.fs, path)
                                     THEN [@ EXCEPT ![path].data = new] ELSE @,
                              !.o_file.data = IF s.o_file.gone THEN new ELSE @,
                              !.o_file.pos = at + n], ERR_SUCCESS)

\* void req_delete()
req_delete(s) ==
    LET e == Deref(s, s.cur_file)
        path == Resolve(s.pwd, e.local_fname)
    IN  IF s.cur_file.ptr = "null" THEN Fault(s)
        ELSE IF e.flags = FE_FLAGS_DIR
        THEN ret_std(IF IsDir(s.fs, path) /\ s.fs[path].order = <<>> /\ path # <<>>
                        /\ path # s.pwd
                     THEN [s EXCEPT !.fs = FsRemove(@, path)] ELSE s, ERR_SUCCESS)
        ELSE ret_std(IF Exists(s.fs, path) /\ ~IsDir(s.fs, path)
                     THEN Unlink(s, path) ELSE s, ERR_SUCCESS)

\* void req_close()
req_close(s) == ret_std([s EXCEPT !.o_file_h = -1, !.o_file = NoFile], ERR_SUCCESS)

\* void req_status()
req_status(s) == ret_std(s, ERR_SUCCESS)

\* void ret_condition()
ret_condition(s) ==
    LET gb == <<RET_CONDITION[1], RET_CONDITION[2], s.pdd2_condition>>
    IN  write_client_tty(s, gb \o <<checksum(gb)>>)

\* void req_condition()
req_condition(s) == IF model # 2 THEN s ELSE ret_condition(s)

\* ------------------------------------------------------------------------
\* TPDD2 only
\* ------------------------------------------------------------------------

\* void ret_version(): the canned TPDD2 version block
ret_version(s) ==
    IF model = 1 THEN s
    ELSE LET gb == <<RET_VERSION[1], RET_VERSION[2],
                     65, 16, 1, 0, 80, 5, 0, 2, 0, 40, 0, 225, 0, 0, 0>>
         IN  write_client_tty(s, Take(gb \o <<checksum(gb)>>, gb[2] + 3))

\* void ret_sysinfo()
ret_sysinfo(s) ==
    IF model = 1 THEN s
    ELSE LET gb == <<RET_SYSINFO[1], RET_SYSINFO[2], 128, 19, 5, 0, 16, 225>>
         IN  write_client_tty(s, Take(gb \o <<checksum(gb)>>, gb[2] + 3))

\* rename(2) of src to dst, directories with what is below them
FsRename(f, src, dst) ==
    LET under(p) == Len(p) >= Len(src) /\ SubSeq(p, 1, Len(src)) = src
        moved(p) == dst \o SubSeq(p, Len(src) + 1, Len(p))
        kept == {p \in DOMAIN f : ~under(p) /\ p # dst}
        new == kept \cup {moved(p) : p \in {q \in DOMAIN f : under(q)}}
        node(p) ==
            IF p \in kept
            THEN LET o1 == IF p = Parent(src)
                           THEN RemoveName(f[p].order, Leaf(src)) ELSE f[p].order
                     o2 == IF p = Parent(dst)
                           THEN Append(RemoveName(o1, Leaf(dst)), Leaf(dst)) ELSE o1
                 IN  [f[p] EXCEPT !.order = o2]
            ELSE f[src \o SubSeq(p, Len(dst) + 1, Len(p))]
    IN  [p \in new |-> node(p)]

\* rename(src, dst): an open file follows its new name, or loses its name when
\* another file takes it
Rename(s, src, dst) ==
    LET o == s.o_file
        under == Len(o.path) >= Len(src) /\ SubSeq(o.path, 1, Len(src)) = src
    IN  [s EXCEPT !.fs = FsRename(@, src, dst),
                  !.o_file =
                      IF s.o_file_h < 0 \/ o.gone THEN o
                      ELSE IF under
                      THEN [o EXCEPT !.path = dst \o SubSeq(o.path, Len(src) + 1,
                                                            Len(o.path))]
                      ELSE IF o.path = dst /\ IsFile(s.fs, dst)
                      THEN [o EXCEPT !.gone = TRUE, !.data = s.fs[dst].data]
                      ELSE o]

\* void req_rename()
req_rename(s) ==
    IF model = 1 THEN s
    ELSE IF s.cur_file.ptr = "null" THEN Fault(s)
    ELSE LET t == CStr(collapse_padded_fname(Sub(s.gb, 2, TPDD_FILENAME_LEN + 1)))
             src == Resolve(s.pwd, Deref(s, s.cur_file).local_fname)
             dst == Resolve(s.pwd, t)
             ok == /\ Exists(s.fs, src) /\ src # <<>>
                   /\ dst # <<>> /\ Leaf(dst) # <<>>
                   /\ IsDir(s.fs, Parent(dst))
                   /\ ~IsDir(s.fs, dst)
                   /\ ~(Len(dst) > Len(src) /\ SubSeq(dst, 1, Len(src)) = src)
         IN  IF ~ok THEN ret_std(s, ERR_SECTOR_NUM)
             ELSE IF src = dst THEN ret_std(s, ERR_SUCCESS)
             ELSE ret_std(Rename(s, src, dst), ERR_SUCCESS)

\* ------------------------------------------------------------------------
\* The disk image
\* ------------------------------------------------------------------------

SECTOR_LEN == 1293
SECTOR_HEADER_LEN == 13
SECTOR_ID_LEN == 12
SECTOR_DATA_LEN == 1280
PDD1_RECORDS == 80
PDD2_RECORDS == 160
SMT_OFFSET == 1240
PDD1_SMT == 128
PDD2_SMT == 192
PDD2_ID_REL == 4
PDD2_DATA_REL == 19
O_RDONLY == 0
O_WRONLY == 1
O_RDWR == 2
CACHE_LOAD == 0
CACHE_COMMIT == 1
CACHE_COMMIT_VERIFY == 2
ERR_FDC_ID_NOT_FOUND == 60
ERR_FDC_READ == 161
ERR_FDC_WRITE_PROTECT == 176

\* the logical sector sizes the size codes 0..6 stand for
FDC_LOGICAL_SECTOR_SIZE == <<64, 80, 128, 256, 512, 1024, 1280>>

\* FDC_LOGICAL_SECTOR_SIZE[c]; a code above 6 reads behind the table, which
\* the clients of this model never store in a record
LogicalSize(c) == IF c < 7 THEN FDC_LOGICAL_SECTOR_SIZE[c + 1] ELSE 0

\* the image file: whether it exists and may be written, its length, and its
\* bytes that are not 0 by their offset
NoImage == [exists |-> FALSE, writable |-> FALSE, len |-> 0, nz |-> [o \in {} |-> 0]]
NoWait == [op |-> "none", n |-> 0, tp |-> 0, l |-> 0, pos |-> 0, data |-> <<>>]

ImgByte(im, o) == IF o \in DOMAIN im.nz THEN im.nz[o] ELSE 0

\* read(disk_img_fd, , n) at offset off: the bytes the file has there
ImgRead(im, off, n) ==
    [i \in 1..Max(0, Min(n, im.len - off)) |-> ImgByte(im, off + i - 1)]

\* write(disk_img_fd, data, ) at offset off
ImgWrite(im, off, data) ==
    LET keep == {o \in DOMAIN im.nz : o < off \/ o >= off + Len(data)}
        new == {off + i - 1 : i \in {j \in 1..Len(data) : data[j] # 0}}
    IN  [im EXCEPT !.len = Max(@, off + Len(data)),
                   !.nz = [o \in keep \cup new |->
                             IF o \in new THEN data[o - off + 1] ELSE im.nz[o]]]

\* rc records written one after the other from offset 0; Rec(rn) gives the
\* bytes of record rn that are not 0
ImgWriteRecords(im, rc, Rec(_)) ==
    LET keep == {o \in DOMAIN im.nz : o >= rc * SECTOR_LEN}
        set == UNION {{rn * SECTOR_LEN + k : k \in DOMAIN Rec(rn)} : rn \in 0..(rc - 1)}
    IN  [im EXCEPT !.len = Max(@, rc * SECTOR_LEN),
                   !.nz = [o \in keep \cup set |->
                             IF o \in set THEN Rec(o \div SECTOR_LEN)[o % SECTOR_LEN]
                             ELSE im.nz[o]]]

\* int open_disk_image(int p, int m): the checks before open()
open_disk_image_access(s, m) ==
    IF ~cfg.image THEN ERR_FDC_NO_DISK
    ELSE IF m = O_RDWR
    THEN (IF s.img.exists /\ s.img.writable THEN ERR_FDC_SUCCESS
          ELSE ERR_FDC_WRITE_PROTECT)
    ELSE IF m = O_WRONLY
    THEN (IF s.img.exists /\ ~s.img.writable THEN ERR_FDC_WRITE_PROTECT
          ELSE ERR_FDC_SUCCESS)
    ELSE ERR_FDC_SUCCESS

\* open(disk_img_fname, of|O_EXCL, 0666): O_CREAT is in of only for O_WRONLY
\* and a missing file; without O_CREAT the O_EXCL bit has no effect on a
\* regular file
open_disk_image_fdc(s, m) ==
    IF open_disk_image_access(s, m) # ERR_FDC_SUCCESS
    THEN open_disk_image_access(s, m)
    ELSE IF ~s.img.exists /\ m # O_WRONLY THEN ERR_FDC_READ
    ELSE ERR_FDC_SUCCESS

\* int open_disk_image(int p, int m): the error code returned
open_disk_image(s, p, m) ==
    IF s.operation_mode = 0 THEN open_disk_image_fdc(s, m)
    ELSE CASE open_disk_image_fdc(s, m) = ERR_FDC_NO_DISK -> ERR_NO_DISK
           [] open_disk_image_fdc(s, m) = ERR_FDC_WRITE_PROTECT -> ERR_WRITE_PROTECT
           [] open_disk_image_fdc(s, m) = ERR_FDC_READ -> ERR_READ_TIMEOUT
           [] OTHER -> open_disk_image_fdc(s, m)

\* int open_disk_image(int p, int m): the descriptor disk_img_fd holds
\* afterwards. open() is not called when a check before it fails; it returns
\* -1 when it fails, else the lowest descriptor that is not in use
img_fd(s, m) ==
    IF open_disk_image_access(s, m) # ERR_FDC_SUCCESS THEN s.disk_img_fd
    ELSE IF open_disk_image_fdc(s, m) # ERR_FDC_SUCCESS THEN -1
    ELSE IF s.o_file_h >= 0 /\ ~s.o_file.closed THEN FD + 1 ELSE FD

\* the state r a handler leaves that has called open_disk_image(p, m) in s
disk_image_opened(s, m, r) == [r EXCEPT !.disk_img_fd = img_fd(s, m)]

\* close(disk_img_fd) at the end of req_cache(): the image if the handler has
\* opened it, else whatever the number left by an earlier open now refers to
close_disk_img(r) ==
    IF r.o_file_h >= 0 /\ r.disk_img_fd = r.o_file_h /\ ~r.o_file.closed
    THEN [r EXCEPT !.o_file.closed = TRUE]
    ELSE r

\* the image file once open_disk_image(p, O_WRONLY) has returned 0
disk_image_created(im) ==
    IF im.exists THEN im
    ELSE [exists |-> TRUE, writable |-> TRUE, len |-> 0, nz |-> [o \in {} |-> 0]]

\* an Operation-mode format that leaves the size code of every record 0
FormatRecord_one_byte(rn) ==
    IF model = 1
    THEN (IF rn = 0 THEN (SECTOR_HEADER_LEN + SMT_OFFSET) :> PDD1_SMT ELSE <<>>)
    ELSE IF rn < 2
    THEN (0 :> 22) @@ (1 :> 255) @@ ((SECTOR_HEADER_LEN + SMT_OFFSET) :> PDD2_SMT)
    ELSE 0 :> 22

\* the record rn of an Operation-mode format
FormatRecord(rn) ==
    IF model = 1
    THEN (IF rn = 0 THEN (SECTOR_HEADER_LEN + SMT_OFFSET) :> PDD1_SMT ELSE 0 :> 1)
    ELSE IF rn < 2
    THEN (0 :> 22) @@ (1 :> 255) @@ ((SECTOR_HEADER_LEN + SMT_OFFSET) :> PDD2_SMT)
    ELSE 0 :> 22

\* void req_format()
req_format(s) ==
    LET e0 == open_disk_image(s, 0, O_WRONLY)
        e == IF e0 = ERR_READ_TIMEOUT THEN ERR_FMT_INTERRUPT ELSE e0
        rc == IF model = 1 THEN PDD1_RECORDS ELSE PDD2_RECORDS
    IN  disk_image_opened(s, O_WRONLY,
        IF e # 0 THEN ret_std(s, e)
        ELSE ret_std([s EXCEPT !.img = ImgWriteRecords(disk_image_created(@), rc,
                                                       FormatRecord)], e))

\* void ret_cache(uint8_t e)
ret_cache(s, e) ==
    LET gb == <<RET_CACHE[1], RET_CACHE[2], e>>
    IN  write_client_tty(s, gb \o <<checksum(gb)>>)

\* void ret_exec(reg_A, reg_X) as req_exec() calls it
req_exec(s) ==
    IF model = 1 THEN s
    ELSE LET gb == <<RET_EXEC[1], RET_EXEC[2], At(s.gb, 4), At(s.gb, 5), At(s.gb, 6)>>
         IN  write_client_tty(s, gb \o <<checksum(gb)>>)

\* the emulated region an address of the CPU address space selects
Region(o) ==
    IF o >= 0 /\ o < 32 THEN [name |-> "ioport", off |-> o, len |-> 32]
    ELSE IF o >= 128 /\ o < 256 THEN [name |-> "cpuram", off |-> o - 128, len |-> 128]
    ELSE IF o >= 16384 /\ o < 16387 THEN [name |-> "ga", off |-> o - 16384, len |-> 3]
    ELSE IF o >= 32768 /\ o < 34816 THEN [name |-> "ram", off |-> o - 32768, len |-> 2048]
    ELSE IF o >= 61440 THEN [name |-> "rom", off |-> o - 61440, len |-> 4096]
    ELSE [name |-> "none", off |-> o, len |-> 0]

MemGet(m, name, o) == IF <<name, o>> \in DOMAIN m THEN m[<<name, o>>] ELSE 0
MemPut(m, name, o, data) ==
    [k \in DOMAIN m \cup {<<name, o + i - 1>> : i \in 1..Len(data)} |->
        IF k[1] = name /\ k[2] >= o /\ k[2] < o + Len(data)
        THEN data[k[2] - o + 1] ELSE m[k]]

\* req_mem_read(): src and o after the switch on the area a
mem_read_src(a, o) ==
    IF a = 0 THEN [name |-> "ram", off |-> (o + 19) % 65536, len |-> 2048]
    ELSE IF Region(o).name = "none"
    THEN [name |-> "ram", off |-> o, len |-> 2048]
    ELSE Region(o)

\* req_mem_write(): src and o after the switch on the area a
mem_write_src(a, o) ==
    IF a = 0 THEN [name |-> "ram", off |-> (o + 19) % 65536, len |-> 2048]
    ELSE IF Region(o).name \in {"none", "rom"}
    THEN [name |-> "ram", off |-> (o - 32768) % 65536, len |-> 2048]
    ELSE Region(o)

\* void req_mem_read()
req_mem_read(s) ==
    IF model = 1 THEN s
    ELSE LET a == At(s.gb, 2)
             o == At(s.gb, 3) * 256 + At(s.gb, 4)
             l == At(s.gb, 5)
             r == mem_read_src(a, o)
             e == IF a = 0 THEN (IF o + l > 1280 \/ l > 252 THEN ERR_PARAM ELSE ERR_SUCCESS)
                  ELSE IF a = 1 THEN ERR_SUCCESS ELSE ERR_PARAM
             data == [i \in 1..l |->
                        IF r.off + i - 1 < r.len /\ r.name # "rom"
                        THEN MemGet(s.mem, r.name, r.off + i - 1) ELSE 0]
             gb == <<RET_MEM_READ, (3 + l) % 256, At(s.gb, 2), At(s.gb, 3), At(s.gb, 4)>>
                   \o data
             \* gb[2+gb[1]] = checksum(gb), then the first gb[1]+3 bytes are sent
             out == [i \in 1..Max(Len(gb), gb[2] + 3) |->
                       IF i = gb[2] + 3 THEN checksum(gb) ELSE gb[i]]
         IN  IF e # ERR_SUCCESS THEN ret_cache(s, e)
             ELSE write_client_tty(s, Take(out, gb[2] + 3))

\* void req_mem_write()
req_mem_write(s) ==
    IF model = 1 THEN s
    ELSE LET a == At(s.gb, 2)
             o == At(s.gb, 3) * 256 + At(s.gb, 4)
             l == (At(s.gb, 1) - 3) % 256
             r == mem_write_src(a, o)
             e == IF a = 0 THEN (IF o + l > 1280 \/ l > 127 THEN ERR_PARAM ELSE ERR_SUCCESS)
                  ELSE IF a = 1 THEN ERR_SUCCESS ELSE ERR_PARAM
         IN  IF e # ERR_SUCCESS THEN ret_cache(s, e)
             ELSE IF r.off + l > r.len THEN Fault(s)
             ELSE ret_cache([s EXCEPT !.mem = MemPut(@, r.name, r.off, Sub(s.gb, 5, l))],
                            ERR_SUCCESS)

\* memset(ram, 0x00, RAM_LEN)
RamClear(m) == [k \in {q \in DOMAIN m : q[1] # "ram"} |-> m[k]]
RamGet(m, o, n) == [i \in 1..n |-> MemGet(m, "ram", o + i - 1)]

\* req_cache(): case CACHE_LOAD
req_cache_load(s, rn) ==
    LET e == open_disk_image(s, rn, O_RDONLY)
        id == ImgRead(s.img, rn * SECTOR_LEN, SECTOR_HEADER_LEN)
        data == ImgRead(s.img, rn * SECTOR_LEN + SECTOR_HEADER_LEN, SECTOR_DATA_LEN)
        m0 == MemPut(RamClear(s.mem), "ram", 0, <<5, 19, rn>>)
        m1 == MemPut(m0, "ram", PDD2_ID_REL, id)
        m2 == MemPut(m1, "ram", PDD2_DATA_REL, data)
    IN  disk_image_opened(s, O_RDONLY,
        IF e # 0 THEN ret_cache(s, e)
        ELSE IF Len(id) # SECTOR_HEADER_LEN
        THEN ret_cache([s EXCEPT !.mem = m1], ERR_DEFECTIVE)
        ELSE IF Len(data) # SECTOR_DATA_LEN
        THEN ret_cache([s EXCEPT !.mem = m2], ERR_DEFECTIVE)
        ELSE ret_cache([s EXCEPT !.mem = m2], ERR_SUCCESS))

\* the commit also empties the cache
req_cache_commit_clears(s, rn) ==
    LET e == open_disk_image(s, rn, O_WRONLY)
        rec == RamGet(s.mem, PDD2_ID_REL, SECTOR_HEADER_LEN)
               \o RamGet(s.mem, PDD2_DATA_REL, SECTOR_DATA_LEN)
    IN  disk_image_opened(s, O_WRONLY,
        IF e # 0 THEN ret_cache(s, e)
        ELSE ret_cache([s EXCEPT !.img = ImgWrite(disk_image_created(@),
                                                  rn * SECTOR_LEN, rec),
                                 !.mem = RamClear(@)], ERR_SUCCESS))

\* req_cache(): case CACHE_COMMIT and CACHE_COMMIT_VERIFY
req_cache_commit(s, rn) ==
    LET e == open_disk_image(s, rn, O_WRONLY)
        rec == RamGet(s.mem, PDD2_ID_REL, SECTOR_HEADER_LEN)
               \o RamGet(s.mem, PDD2_DATA_REL, SECTOR_DATA_LEN)
    IN  disk_image_opened(s, O_WRONLY,
        IF e # 0 THEN ret_cache(s, e)
        ELSE ret_cache([s EXCEPT !.img = ImgWrite(disk_image_created(@),
                                                  rn * SECTOR_LEN, rec)], ERR_SUCCESS))

\* void req_cache()
req_cache(s) ==
    IF model = 1 THEN s
    ELSE LET a == At(s.gb, 2)
             t == At(s.gb, 4)
             sec == At(s.gb, 6)
             rn == (t * 2 + sec) % 256
         IN  IF t >= 80 \/ sec >= 2 THEN ret_cache(s, ERR_PARAM)
             ELSE IF a = CACHE_LOAD THEN close_disk_img(req_cache_load(s, rn))
             ELSE IF a \in {CACHE_COMMIT, CACHE_COMMIT_VERIFY}
             THEN close_disk_img(req_cache_commit(s, rn))
             ELSE ret_cache(close_disk_img(s), ERR_PARAM)

\* ------------------------------------------------------------------------
\* FDC mode
\* ------------------------------------------------------------------------

pdd1_condition == 0

\* void ret_fdc_std(uint8_t e, uint8_t s, uint16_t l)
ret_fdc_std(s, e, st, l) == [s EXCEPT !.tx = Append(@, FdcStd(e, st, l))]

req_fdc_set_mode_opr(s, m) == [s EXCEPT !.operation_mode = MODE_OPR]

\* void req_fdc_set_mode(int m)
req_fdc_set_mode(s, m) == [s EXCEPT !.operation_mode = m]

\* void req_fdc_condition()
req_fdc_condition(s) == ret_fdc_std(s, ERR_FDC_SUCCESS, pdd1_condition, 0)

\* write_client_tty(rb, n): bytes of the record buffer go to the client
write_client_rb(s, data) == [s EXCEPT !.tx = Append(@, data)]

\* read_client_tty(, n) blocks until the client has sent n bytes; the rest of
\* the handler is kept with what it needs
Waiting(s, op, n, tp, l, pos, data) ==
    [s EXCEPT !.wait = [op |-> op, n |-> n, tp |-> tp, l |-> l, pos |-> pos,
                        data |-> data]]

\* void req_fdc_format(uint8_t lc)
req_fdc_format(s, lc) ==
    LET e == open_disk_image(s, 0, O_RDWR)
        Rec(rn) == IF lc = 0 THEN <<>> ELSE 0 :> lc
    IN  disk_image_opened(s, O_RDWR,
        IF e # 0 THEN ret_fdc_std(s, e, 0, 0)
        ELSE ret_fdc_std([s EXCEPT !.img = ImgWriteRecords(@, PDD1_RECORDS, Rec)],
                         e, 0, 0))

\* void req_fdc_read_id(uint8_t p): up to read_client_tty()
req_fdc_read_id(s, p) ==
    LET e == open_disk_image(s, p, O_RDONLY)
        rb == ImgRead(s.img, p * SECTOR_LEN, SECTOR_HEADER_LEN)
        l == LogicalSize(At(rb, 0))
    IN  disk_image_opened(s, O_RDONLY,
        IF e # 0 THEN ret_fdc_std(s, e, 0, 0)
        ELSE IF Len(rb) # SECTOR_HEADER_LEN THEN ret_fdc_std(s, ERR_FDC_READ, p, 0)
        ELSE Waiting(ret_fdc_std(s, ERR_FDC_SUCCESS, p, l), "read_id", 1, p, l, 0,
                     Drop(rb, 1)))

\* void req_fdc_read_id(uint8_t p): from read_client_tty() on
req_fdc_read_id_send(s, w, t) ==
    IF t[1] = FDC_CMD_EOL THEN write_client_rb(s, w.data) ELSE s

\* void req_fdc_read_sector(uint8_t tp, uint8_t tl): up to read_client_tty()
req_fdc_read_sector(s, tp, tl) ==
    LET e == open_disk_image(s, tp, O_RDONLY)
        hd == ImgRead(s.img, tp * SECTOR_LEN, SECTOR_HEADER_LEN)
        l == LogicalSize(At(hd, 0))
        pos == (tp * SECTOR_LEN) + SECTOR_HEADER_LEN + ((tl - 1) * l)
        rb == ImgRead(s.img, pos, l)
    IN  disk_image_opened(s, O_RDONLY,
        IF e # 0 THEN ret_fdc_std(s, e, 0, 0)
        ELSE IF Len(hd) # SECTOR_HEADER_LEN THEN ret_fdc_std(s, ERR_FDC_READ, tp, 0)
        ELSE IF l * tl > SECTOR_DATA_LEN THEN ret_fdc_std(s, ERR_FDC_LSN_HI, tp, l)
        ELSE IF Len(rb) # l THEN ret_fdc_std(s, ERR_FDC_READ, tp, 0)
        ELSE Waiting(ret_fdc_std(s, ERR_FDC_SUCCESS, tp, l), "read_sector", 1, tp, l,
                     pos, rb))

\* the data goes out whatever byte the client sent
req_fdc_read_sector_always(s, w, t) == write_client_rb(s, w.data)

\* void req_fdc_read_sector(uint8_t tp, uint8_t tl): from read_client_tty() on
req_fdc_read_sector_send(s, w, t) ==
    IF t[1] = FDC_CMD_EOL THEN write_client_rb(s, w.data) ELSE s

\* void req_fdc_search_id(): up to read_client_tty()
req_fdc_search_id(s) ==
    LET e == open_disk_image(s, 0, O_RDONLY)
    IN  disk_image_opened(s, O_RDONLY,
        IF e # 0 THEN ret_fdc_std(s, e, 0, 0)
        ELSE Waiting(ret_fdc_std(s, ERR_FDC_SUCCESS, 0, 0), "search_id",
                     SECTOR_ID_LEN, 0, 0, 0, <<>>))

\* !strncmp(a, b, n)
RECURSIVE StrnEq(_, _, _)
StrnEq(a, b, n) ==
    IF n = 0 THEN TRUE
    ELSE IF At(a, 0) # At(b, 0) THEN FALSE
    ELSE IF At(a, 0) = 0 THEN TRUE
    ELSE StrnEq(Drop(a, 1), Drop(b, 1), n - 1)

\* req_fdc_search_id(): the records read whole, and those whose ID matches sb
SearchFull(im) == Min(PDD1_RECORDS, im.len \div SECTOR_LEN)
SearchHits(im, sb) ==
    {rn \in 0..(SearchFull(im) - 1) :
        StrnEq(sb, ImgRead(im, rn * SECTOR_LEN + 1, SECTOR_ID_LEN), SECTOR_ID_LEN)}
SetMin(S) == CHOOSE x \in S : \A y \in S : x <= y

\* void req_fdc_search_id(): from read_client_tty() on; the loop stops at the
\* first record that matches or that the file does not hold whole
req_fdc_search_id_scan(s, w, sb) ==
    IF SearchHits(s.img, sb) # {}
    THEN ret_fdc_std(s, ERR_FDC_SUCCESS, SetMin(SearchHits(s.img, sb)),
                     LogicalSize(ImgByte(s.img,
                                         SetMin(SearchHits(s.img, sb)) * SECTOR_LEN)))
    ELSE IF SearchFull(s.img) < PDD1_RECORDS
    THEN ret_fdc_std(s, ERR_FDC_READ, SearchFull(s.img), 0)
    ELSE ret_fdc_std(s, ERR_FDC_ID_NOT_FOUND, 255,
                     LogicalSize(ImgByte(s.img, (PDD1_RECORDS - 1) * SECTOR_LEN)))

\* void req_fdc_write_id(int tp): up to read_client_tty()
req_fdc_write_id(s, tp) ==
    LET e == open_disk_image(s, tp, O_RDWR)
        rb == ImgRead(s.img, tp * SECTOR_LEN, 1)
        l == LogicalSize(At(rb, 0))
    IN  disk_image_opened(s, O_RDWR,
        IF e # 0 THEN ret_fdc_std(s, e, 0, 0)
        ELSE IF Len(rb) # 1 THEN ret_fdc_std(s, ERR_FDC_READ, tp, 0)
        ELSE Waiting(ret_fdc_std(s, ERR_FDC_SUCCESS, tp, l), "write_id",
                     SECTOR_ID_LEN, tp, l, tp * SECTOR_LEN + 1, <<>>))

\* void req_fdc_write_id(int tp): from read_client_tty() on
req_fdc_write_id_store(s, w, rb) ==
    ret_fdc_std([s EXCEPT !.img = ImgWrite(@, w.pos, rb)], ERR_FDC_SUCCESS, w.tp, w.l)

\* void req_fdc_write_sector(int tp, int tl): up to read_client_tty()
req_fdc_write_sector(s, tp, tl) ==
    LET e == open_disk_image(s, tp, O_RDWR)
        hd == ImgRead(s.img, tp * SECTOR_LEN, SECTOR_HEADER_LEN)
        l == LogicalSize(At(hd, 0))
        pos == (tp * SECTOR_LEN) + SECTOR_HEADER_LEN + ((tl - 1) * l)
    IN  disk_image_opened(s, O_RDWR,
        IF e # 0 THEN ret_fdc_std(s, e, 0, 0)
        ELSE IF Len(hd) # SECTOR_HEADER_LEN THEN ret_fdc_std(s, ERR_FDC_READ, tp, 0)
        ELSE Waiting(ret_fdc_std(s, ERR_FDC_SUCCESS, tp, l), "write_sector", l, tp, l,
                     pos, <<>>))

\* void req_fdc_write_sector(int tp, int tl): from read_client_tty() on
req_fdc_write_sector_store(s, w, rb) ==
    ret_fdc_std([s EXCEPT !.img = ImgWrite(@, w.pos, rb)], ERR_FDC_SUCCESS, w.tp, w.l)

\* the handler blocked in read_client_tty() goes on with the bytes it got
fdc_resume(s, w, bytes) ==
    CASE w.op = "read_id" -> req_fdc_read_id_send(s, w, bytes)
      [] w.op = "read_sector" -> req_fdc_read_sector_send(s, w, bytes)
      [] w.op = "search_id" -> req_fdc_search_id_scan(s, w, bytes)
      [] w.op = "write_id" -> req_fdc_write_id_store(s, w, bytes)
      [] OTHER -> req_fdc_write_sector_store(s, w, bytes)

\* atoi(3)
IsSpace(c) == c = SP \/ (c >= 9 /\ c <= 13)
IsDigit(c) == c >= 48 /\ c <= 57
RECURSIVE Digits(_, _)
Digits(str, acc) ==
    IF str = <<>> \/ ~IsDigit(Head(str)) THEN acc
    ELSE Digits(Tail(str), acc * 10 + (Head(str) - 48))
RECURSIVE atoi(_)
atoi(str) ==
    IF str = <<>> THEN 0
    ELSE IF IsSpace(Head(str)) THEN atoi(Tail(str))
    ELSE IF Head(str) = 45 THEN 0 - Digits(Tail(str), 0)
    ELSE IF Head(str) = 43 THEN Digits(Tail(str), 0)
    ELSE Digits(str, 0)

\* the tokens strtok(gb, ",") and strtok(NULL, ",") find
RECURSIVE SplitAt(_, _, _, _)
SplitAt(str, sep, i, cur) ==
    IF i > Len(str) THEN <<cur>>
    ELSE IF str[i] = sep THEN <<cur>> \o SplitAt(str, sep, i + 1, <<>>)
    ELSE SplitAt(str, sep, i + 1, Append(cur, str[i]))
strtok(str) == SelectSeq(SplitAt(str, 44, 1, <<>>), LAMBDA t : t # <<>>)

\* the scan for a command byte: ch[0] first, then the line
RECURSIVE FdcScan(_, _)
FdcScan(c0, ln) ==
    IF c0 = 0 /\ ln = <<>>
    THEN [ok |-> FALSE, c |-> 0, eol |-> FALSE, rest |-> ln, first |-> -1]
    ELSE LET c == IF c0 # 0 THEN c0 ELSE Head(ln)
             rest == IF c0 # 0 THEN ln ELSE Tail(ln)
         IN  IF c = FDC_CMD_EOL
             THEN [ok |-> TRUE, c |-> SP, eol |-> TRUE, rest |-> rest, first |-> c]
             ELSE IF c = 0 THEN FdcScan(0, rest)
             ELSE [ok |-> TRUE, c |-> IF c \in FDC_CMDS THEN c ELSE SP,
                   eol |-> FALSE, rest |-> rest, first |-> c]

\* the parameter bytes: at most 6, spaces dropped, up to the terminator
RECURSIVE FdcParams(_, _, _)
FdcParams(ln, i, acc) ==
    IF i >= 6 THEN [ok |-> TRUE, gb |-> acc, rest |-> ln]
    ELSE IF ln = <<>> THEN [ok |-> FALSE, gb |-> acc, rest |-> ln]
    ELSE IF Head(ln) = FDC_CMD_EOL THEN [ok |-> TRUE, gb |-> acc, rest |-> Tail(ln)]
    ELSE IF Head(ln) = SP THEN FdcParams(Tail(ln), i, acc)
    ELSE FdcParams(Tail(ln), i + 1, Append(acc, Head(ln)))

\* what get_fdc_cmd() reads: the command byte and the parameter string
FdcRead(c0, ln) ==
    LET sc == FdcScan(IF c0 = 255 THEN 0 ELSE c0, ln)
        pr == IF sc.ok /\ ~sc.eol THEN FdcParams(sc.rest, 0, <<>>)
              ELSE [ok |-> sc.ok, gb |-> <<>>, rest |-> sc.rest]
    IN  [ok |-> sc.ok /\ pr.ok, c |-> sc.c, gb |-> pr.gb, rest |-> pr.rest,
         first |-> sc.first]

\* an invalid command is dropped without a response
get_fdc_cmd_silent(s0, r) ==
    LET s == [s0 EXCEPT !.ch = 0, !.line = r.rest, !.gb = r.gb]
        tok == strtok(CStr(r.gb))
        p == IF Len(tok) >= 1 THEN atoi(tok[1]) ELSE 0
        l == IF Len(tok) >= 2 THEN atoi(tok[2]) ELSE 1
        c == r.c
    IN  IF p < 0 THEN ret_fdc_std(s, ERR_FDC_PARAM, 255, 0)
        ELSE IF p > 79 THEN ret_fdc_std(s, ERR_FDC_PSN_HI, 255, 0)
        ELSE IF l < 1 THEN ret_fdc_std(s, ERR_FDC_LSN_LO, p, 0)
        ELSE IF l > 20 THEN ret_fdc_std(s, ERR_FDC_LSN_HI, p, 0)
        ELSE CASE c = FDC_SET_MODE -> req_fdc_set_mode(s, p)
               [] c = FDC_CONDITION -> req_fdc_condition(s)
               [] c \in {FDC_FORMAT_NV, FDC_FORMAT} -> req_fdc_format(s, p)
               [] c = FDC_READ_ID -> req_fdc_read_id(s, p)
               [] c = FDC_READ_SECTOR -> req_fdc_read_sector(s, p, l)
               [] c = FDC_SEARCH_ID -> req_fdc_search_id(s)
               [] c \in {FDC_WRITE_ID_NV, FDC_WRITE_ID} -> req_fdc_write_id(s, p)
               [] c \in {FDC_WRITE_SECTOR_NV, FDC_WRITE_SECTOR} ->
                    req_fdc_write_sector(s, p, l)
               [] OTHER -> s

\* void get_fdc_cmd(): validation of the parameters and dispatch
get_fdc_cmd(s0, r) ==
    LET s == [s0 EXCEPT !.ch = 0, !.line = r.rest, !.gb = r.gb]
        tok == strtok(CStr(r.gb))
        p == IF Len(tok) >= 1 THEN atoi(tok[1]) ELSE 0
        l == IF Len(tok) >= 2 THEN atoi(tok[2]) ELSE 1
        c == r.c
    IN  IF p < 0 THEN ret_fdc_std(s, ERR_FDC_PARAM, 255, 0)
        ELSE IF p > 79 THEN ret_fdc_std(s, ERR_FDC_PSN_HI, 255, 0)
        ELSE IF l < 1 THEN ret_fdc_std(s, ERR_FDC_LSN_LO, p, 0)
        ELSE IF l > 20 THEN ret_fdc_std(s, ERR_FDC_LSN_HI, p, 0)
        ELSE CASE c = FDC_SET_MODE -> req_fdc_set_mode(s, p)
               [] c = FDC_CONDITION -> req_fdc_condition(s)
               [] c \in {FDC_FORMAT_NV, FDC_FORMAT} -> req_fdc_format(s, p)
               [] c = FDC_READ_ID -> req_fdc_read_id(s, p)
               [] c = FDC_READ_SECTOR -> req_fdc_read_sector(s, p, l)
               [] c = FDC_SEARCH_ID -> req_fdc_search_id(s)
               [] c \in {FDC_WRITE_ID_NV, FDC_WRITE_ID} -> req_fdc_write_id(s, p)
               [] c \in {FDC_WRITE_SECTOR_NV, FDC_WRITE_SECTOR} ->
                    req_fdc_write_sector(s, p, l)
               [] OTHER -> ret_fdc_std(s, ERR_FDC_COMMAND, 0, 0)

\* ------------------------------------------------------------------------
\* Operation mode
\* ------------------------------------------------------------------------

\* the index of the first 0x5A 0x5A pair of the line, 0 when there is none
RECURSIVE FindSync(_, _)
FindSync(ln, k) ==
    IF k + 1 > Len(ln) THEN 0
    ELSE IF ln[k] = OPR_CMD_SYNC /\ ln[k + 1] = OPR_CMD_SYNC THEN k
    ELSE FindSync(ln, k + 1)

\* the line holds a whole block behind its first preamble
FrameEnd(ln) ==
    LET k == FindSync(ln, 1)
    IN  IF k = 0 \/ Len(ln) < k + 3 THEN 0
        ELSE IF Len(ln) < k + 3 + ln[k + 3] + 1 THEN 0
        ELSE k + 3 + ln[k + 3] + 1

\* the bytes the scan of get_opr_cmd() has read and dropped for good
JunkLen(ln) ==
    LET k == FindSync(ln, 1)
    IN  IF k # 0 THEN k - 1
        ELSE IF ln # <<>> /\ ln[Len(ln)] = OPR_CMD_SYNC THEN Len(ln) - 1
        ELSE Len(ln)

ChecksumOk(gb) == checksum(gb) = gb[gb[2] + 3]

\* the opcode after the bank bit and the synonyms
\* bit 6 is cleared whatever the drive model
OprCode_any_model(c0) ==
    LET c1 == c0 - 64 * ((c0 \div 64) % 2)
    IN  IF c1 > 13 /\ c1 < 19 THEN c1 + 34 ELSE c1

OprCode(c0) ==
    LET c1 == IF model = 2 THEN c0 - 64 * ((c0 \div 64) % 2) ELSE c0
    IN  IF c1 > 13 /\ c1 < 19 THEN c1 + 34 ELSE c1

checksum_failed_reply(s) == ret_std(s, ERR_PARAM)

\* get_opr_cmd() when the checksum test fails: return
checksum_failed(s) == s

\* get_opr_cmd(): switch(c), c the opcode after translation
opr_switch(s, c) ==
             CASE c = REQ_DIRENT -> req_dirent(s)
               [] c = REQ_OPEN -> req_open(s)
               [] c = REQ_CLOSE -> req_close(s)
               [] c = REQ_READ -> req_read(s)
               [] c = REQ_WRITE -> req_write(s)
               [] c = REQ_DELETE -> req_delete(s)
               [] c = REQ_FORMAT -> req_format(s)
               [] c = REQ_STATUS -> req_status(s)
               [] c = REQ_FDC -> req_fdc(s)
               [] c = REQ_CONDITION -> req_condition(s)
               [] c = REQ_RENAME -> req_rename(s)
               [] c = REQ_VERSION -> ret_version(s)
               [] c = REQ_CACHE -> req_cache(s)
               [] c = REQ_MEM_READ -> req_mem_read(s)
               [] c = REQ_MEM_WRITE -> req_mem_write(s)
               [] c = REQ_SYSINFO -> ret_sysinfo(s)
               [] c = REQ_EXEC -> req_exec(s)
               [] OTHER -> s

\* void get_opr_cmd(): from the checksum test on
get_opr_cmd(s0) ==
    IF ~ChecksumOk(s0.gb) THEN checksum_failed(s0)
    ELSE LET c0 == s0.gb[1]
         IN  opr_switch(IF model = 2 THEN [s0 EXCEPT !.bank = (c0 \div 64) % 2] ELSE s0,
                        OprCode(c0))

\* ------------------------------------------------------------------------
\* The command loop and the client
\* ------------------------------------------------------------------------

NoStep == [op |-> "init", cmd |-> -1, sub |-> -1, ok |-> FALSE, probe |-> -2,
           first |-> -1]

\* the state a handler leaves
Commit(r) ==
    /\ operation_mode' = r.operation_mode
    /\ in_dme' = r.in_dme
    /\ ch' = r.ch
    /\ bank' = r.bank
    /\ fs' = r.fs
    /\ pwd' = r.pwd
    /\ cwd' = r.cwd
    /\ dir_depth' = r.dir_depth
    /\ dme_cwd' = r.dme_cwd
    /\ file_list' = r.file_list
    /\ cursor' = r.cursor
    /\ f_static' = r.f_static
    /\ cur_file' = r.cur_file
    /\ o_file_h' = r.o_file_h
    /\ o_file' = r.o_file
    /\ pdd2_condition' = r.pdd2_condition
    /\ mem' = r.mem
    /\ f_open_mode' = r.f_open_mode
    /\ crashed' = r.crashed
    /\ img' = r.img
    /\ disk_img_fd' = r.disk_img_fd
    /\ fdc_wait' = r.wait
    /\ client_termios' = r.client_termios
    /\ line' = r.line
    /\ tx' = r.tx

IsGetFirst(gb) ==
    ChecksumOk(gb) /\ OprCode(gb[1]) = REQ_DIRENT /\ At(gb, 27) = DIRENT_GET_FIRST

\* the physical sector number a parameter string names, -1 when it names
\* none or one out of range
NamedSector(gb) ==
    IF strtok(CStr(gb)) = <<>> THEN -1
    ELSE IF atoi(strtok(CStr(gb))[1]) \in 0..79 THEN atoi(strtok(CStr(gb))[1])
    ELSE -1

\* get_fdc_cmd() has read the bytes r of one command
FdcDone(r) ==
    /\ r.ok
    /\ \E q \in {get_fdc_cmd(Cur(line, <<>>), r)} : Commit(q)
    /\ last' = [NoStep EXCEPT !.op = "fdc", !.cmd = r.c, !.ok = TRUE,
                              !.first = r.first]
    /\ valid_p' = IF NamedSector(r.gb) >= 0 THEN NamedSector(r.gb) ELSE valid_p
    /\ last_open' = last_open

\* main(): case MODE_FDC of the command loop
FdcStep ==
    /\ ~crashed
    /\ operation_mode = MODE_FDC
    /\ fdc_wait = NoWait
    /\ \E r \in {FdcRead(ch, line)} : FdcDone(r)
    /\ UNCHANGED <<cfg, termRun, dme_done, ck_in, ck_out>>

\* read_client_tty() gives up the wait whatever has arrived
FdcData_timeout ==
    /\ ~crashed
    /\ fdc_wait # NoWait
    /\ Commit([Cur(line, <<>>) EXCEPT !.wait = NoWait])
    /\ last' = [NoStep EXCEPT !.op = fdc_wait.op, !.ok = TRUE, !.first = At(line, 0)]
    /\ UNCHANGED <<cfg, termRun, dme_done, valid_p, last_open, ck_in, ck_out>>

\* read_client_tty() inside an FDC handler has its bytes: the handler ends
FdcData ==
    /\ ~crashed
    /\ fdc_wait # NoWait
    /\ Len(line) >= fdc_wait.n
    /\ \E q \in {fdc_resume([Cur(Drop(line, fdc_wait.n), <<>>) EXCEPT !.wait = NoWait],
                               fdc_wait, Take(line, fdc_wait.n))} : Commit(q)
    /\ last' = [NoStep EXCEPT !.op = fdc_wait.op, !.ok = TRUE, !.first = At(line, 0)]
    /\ UNCHANGED <<cfg, termRun, dme_done, valid_p, last_open, ck_in, ck_out>>

\* what the client knows of the open file once the block gb was answered: an
\* open in one of the three modes answered with success leaves its mode, any
\* other answer to such an open and every close leave F_OPEN_NONE
OpenHistory(gb, r) ==
    IF ~ChecksumOk(gb) THEN last_open
    ELSE IF OprCode(gb[1]) = REQ_CLOSE THEN F_OPEN_NONE
    ELSE IF OprCode(gb[1]) = REQ_OPEN
            /\ At(gb, 2) \in {F_OPEN_WRITE, F_OPEN_APPEND, F_OPEN_READ}
    THEN (IF r.tx = <<Packet(RET_STD[1], <<ERR_SUCCESS>>)>> THEN At(gb, 2)
          ELSE F_OPEN_NONE)
    ELSE last_open

\* get_opr_cmd() has received the block gb and left the state r
OprDone(gb, r) ==
    /\ Commit(r)
    /\ last' = [NoStep EXCEPT !.op = "opr",
                   !.cmd = IF ChecksumOk(gb) THEN OprCode(gb[1]) ELSE -1,
                   !.sub = IF OprCode(gb[1]) = REQ_DIRENT THEN At(gb, 27)
                           ELSE At(gb, 2),
                   !.ok = ChecksumOk(gb),
                   !.probe = r.probe]
    /\ termRun' = IF r.probe # -2
                  THEN (IF r.probe = FDC_CMD_EOL THEN Min(termRun + 1, 2) ELSE 0)
                  ELSE IF IsGetFirst(gb) THEN 0 ELSE termRun
    /\ dme_done' = (dme_done \/ r.in_dme >= 2)
    /\ valid_p' = valid_p
    /\ last_open' = OpenHistory(gb, r)

\* the block of the line that ends at byte e
OprBlock(e, gb) == OprDone(gb, get_opr_cmd(Cur(Drop(line, e), gb)))

\* main(): default case of the command loop, a whole block was received
OprStep ==
    /\ ~crashed
    /\ operation_mode # MODE_FDC
    /\ FrameEnd(line) # 0
    /\ OprBlock(FrameEnd(line), SubSeq(line, FindSync(line, 1) + 2, FrameEnd(line)))
    /\ UNCHANGED <<cfg, ck_in, ck_out>>

\* get_opr_cmd() reads and drops bytes that start no block
OprScan ==
    /\ ~crashed
    /\ operation_mode # MODE_FDC
    /\ FrameEnd(line) = 0
    /\ JunkLen(line) > 0
    /\ line' = Drop(line, JunkLen(line))
    /\ tx' = <<>>
    /\ last' = [NoStep EXCEPT !.op = "scan"]
    /\ UNCHANGED <<cfg, operation_mode, in_dme, ch, bank, fs, pwd, cwd, dir_depth,
                   dme_cwd, file_list, cursor, f_static, cur_file, o_file_h, o_file,
                   pdd2_condition, mem, f_open_mode, crashed, img, fdc_wait,
                   termRun, dme_done, valid_p, last_open, disk_img_fd, client_termios,
                   ck_in, ck_out>>

\* a request block as a client sends it
Frame(cmd, payload) == <<OPR_CMD_SYNC, OPR_CMD_SYNC>> \o Packet(cmd, payload)
BadFrame(cmd, payload) ==
    LET f == Frame(cmd, payload)
    IN  [f EXCEPT ![Len(f)] = (@ + 1) % 256]
DirentFrame(name, attr, action) ==
    Frame(REQ_DIRENT, PadTrunc(name, TPDD_FILENAME_LEN, TPDD_FILENAME_LEN)
                      \o <<attr, action>>)
FdcFrame == Frame(REQ_FDC, <<>>)

\* a write request is sent only while the open file is short
WriteAllowed(m) ==
    (Len(m) > 2 /\ m[3] = REQ_WRITE) =>
        (o_file_h >= 0 => Len(OpenData([o_file |-> o_file, fs |-> fs])) < MaxFileLen)

\* an open for read is sent only while the directory depth is small
OpenAllowed(m) ==
    (Len(m) > 4 /\ m[3] = REQ_OPEN /\ m[5] = F_OPEN_READ) => dir_depth < MaxDepth

\* the client sends one message of its menu
Send ==
    /\ ~crashed
    /\ \E m \in cfg.menu :
          /\ \/ line = <<>>
             \/ Len(m) = 1 /\ Len(line) <= MaxBacklog
          /\ WriteAllowed(m)
          /\ OpenAllowed(m)
          /\ line' = line \o m
    /\ tx' = <<>>
    /\ last' = [NoStep EXCEPT !.op = "send"]
    /\ UNCHANGED <<cfg, operation_mode, in_dme, ch, bank, fs, pwd, cwd, dir_depth,
                   dme_cwd, file_list, cursor, f_static, cur_file, o_file_h, o_file,
                   pdd2_condition, mem, f_open_mode, crashed, img, fdc_wait,
                   termRun, dme_done, valid_p, last_open, disk_img_fd, client_termios,
                   ck_in, ck_out>>

\* ------------------------------------------------------------------------
\* Configurations and initial states
\* ------------------------------------------------------------------------

\* the k85 row of CLIENT_PROFILES with the settings of main()
K85(m, dme, menu) ==
    [model |-> m, base_len |-> 6, ext_len |-> 2, pad_fn |-> TRUE,
     default_attr |-> ATTR_DEF, dme_en |-> (dme /\ m # 2),
     enable_magic_files |-> TRUE, upcase |-> TRUE, tildes |-> TRUE,
     share_path |-> <<ShareRoot, <<>>>>, image |-> FALSE, menu |-> menu]

\* the host tree: /S with A.BA and the directory SUB, /L with DOS100.CO
PlainFs ==
    (<<>> :> DirNode(<<N_S, N_L>>, TRUE)) @@
    (<<N_S>> :> DirNode(<<N_A_BA, N_SUB>>, TRUE)) @@
    (<<N_S, N_A_BA>> :> FileNode(<<1, 2, 3>>)) @@
    (<<N_S, N_SUB>> :> DirNode(<<N_X_DO>>, TRUE)) @@
    (<<N_S, N_SUB, N_X_DO>> :> FileNode(<<4>>)) @@
    (<<N_L>> :> DirNode(<<N_DOS100>>, TRUE)) @@
    (<<N_L, N_DOS100>> :> FileNode(<<5, 6>>))

\* the same tree with a dangling link B.DO listed after A.BA
DanglingFs ==
    [p \in DOMAIN PlainFs \cup {<<N_S, N_B_DO>>} |->
        IF p = <<N_S, N_B_DO>> THEN DanglingNode
        ELSE IF p = <<N_S>> THEN DirNode(<<N_A_BA, N_B_DO, N_SUB>>, TRUE)
        ELSE PlainFs[p]]

\* the same tree with a share directory that cannot be read
UnreadableFs == [PlainFs EXCEPT ![<<N_S>>].readable = FALSE]

GetFirst == DirentFrame(<<>>, 0, DIRENT_GET_FIRST)
GetNext == DirentFrame(<<>>, 0, DIRENT_GET_NEXT)
SetName(n) == DirentFrame(n, ATTR_DEF, DIRENT_SET_NAME)
C_A_BA == <<65, 32, 32, 32, 32, 32, 46, 66, 65>>
C_N_DO == <<78, 32, 32, 32, 32, 32, 46, 68, 79>>
C_D_DIR == <<68, 32, 32, 32, 32, 32, 46, 60, 62>>
C_SUB_DIR == <<83, 85, 66, 32, 32, 32, 46, 60, 62>>

\* what the client of the mode-switch runs may send
ProtoMenu ==
    {FdcFrame, FdcFrame \o <<FDC_CMD_EOL>>, FdcFrame \o <<255>>,
     FdcFrame \o <<FDC_SET_MODE>>,
     <<FDC_CMD_EOL>>, <<FDC_SET_MODE>>, <<49>>, <<48>>,
     GetFirst, Frame(REQ_STATUS, <<>>), BadFrame(REQ_STATUS, <<>>)}

\* what the client of the directory runs may send
DirMenu ==
    {FdcFrame \o <<FDC_CMD_EOL>>, <<FDC_SET_MODE>>, <<49>>, <<FDC_CMD_EOL>>,
     GetFirst, GetNext, SetName(C_A_BA), Frame(REQ_STATUS, <<>>),
     Frame(REQ_VERSION, <<>>)}

\* what the client of the file runs may send
FileMenu ==
    {SetName(C_A_BA), SetName(C_N_DO), SetName(C_D_DIR), SetName(<<>>),
     Frame(REQ_OPEN, <<F_OPEN_WRITE>>),
     Frame(REQ_WRITE, <<9>>), Frame(REQ_CLOSE, <<>>)}

C_B_DO == <<66, 32, 32, 32, 32, 32, 46, 68, 79>>

\* the tree with a file B.DO of n bytes, each byte telling its place
ReadFs(n) == FsAdd(PlainFs, <<N_S, N_B_DO>>, FileNode([i \in 1..n |-> i % 256]))
ReadLens == {0, REQ_RW_DATA_MAX, MaxReadLen, 2 * REQ_RW_DATA_MAX}

\* what the client that reads files may send
ReadMenu ==
    {SetName(C_A_BA), SetName(C_B_DO),
     Frame(REQ_OPEN, <<F_OPEN_READ>>), Frame(REQ_READ, <<>>),
     Frame(REQ_CLOSE, <<>>), Frame(REQ_DELETE, <<>>)}

C_DOT_DIR == <<46, 32, 32, 32, 32, 32, 46, 60, 62>>
C_PARENT_DIR == <<94, 32, 32, 32, 32, 32, 46, 60, 62>>

\* what the client that walks the directories may send
NavMenu ==
    {SetName(C_SUB_DIR), SetName(C_DOT_DIR), SetName(C_PARENT_DIR), GetFirst,
     Frame(REQ_OPEN, <<F_OPEN_READ>>)}

\* the tree with a second DOS100.CO, in the share root
MagicFs == FsAdd(PlainFs, <<N_S, N_DOS100>>, FileNode(<<7>>))

\* what the client that loads a magic file may send
MagicMenu ==
    {SetName(N_DOS100), SetName(C_A_BA), SetName(C_N_DO), SetName(C_SUB_DIR),
     SetName(C_DOT_DIR), SetName(C_PARENT_DIR), Frame(REQ_OPEN, <<F_OPEN_READ>>)}

C_HID_DO == <<46, 78, 32, 32, 32, 32, 46, 68, 79>>

\* what the client that saves a new file and lists the directory may send
CreateMenu ==
    {SetName(C_N_DO), SetName(C_HID_DO), Frame(REQ_OPEN, <<F_OPEN_WRITE>>),
     Frame(REQ_WRITE, <<9, 8, 7, 6>>), Frame(REQ_CLOSE, <<>>), GetFirst, GetNext}

\* the disk images: a blank one is what a drive leaves of an unformatted
\* disk, 80 or 160 records of zero bytes; Formatted(lc) is an FDC format with
\* the size code lc
EmptyImage == [exists |-> TRUE, writable |-> TRUE, len |-> 0, nz |-> [o \in {} |-> 0]]
BlankImage(rc) == [EmptyImage EXCEPT !.len = rc * SECTOR_LEN]
Formatted(lc) ==
    [BlankImage(PDD1_RECORDS) EXCEPT
        !.nz = [o \in {rn * SECTOR_LEN : rn \in 0..(PDD1_RECORDS - 1)} |-> lc]]
ReadOnly(im) == [im EXCEPT !.writable = FALSE]

\* FDC-mode command lines and the data that follows them; the data bytes and
\* the size codes stay below 7, so that no header byte selects a logical size
\* behind the end of FDC_LOGICAL_SECTOR_SIZE
FdcLine(c, params) == <<c>> \o params \o <<FDC_CMD_EOL>>
IdData == Rep(5, SECTOR_ID_LEN)
SectorData == Rep(5, 80)
CacheFrame(a, t, sec) == Frame(REQ_CACHE, <<a, 0, t, 0, sec>>)

FdcMenu ==
    {FdcFrame, Frame(REQ_FORMAT, <<>>), FdcLine(FDC_SET_MODE, <<49>>),
     FdcLine(FDC_FORMAT, <<49>>), FdcLine(FDC_READ_ID, <<48>>),
     FdcLine(FDC_READ_SECTOR, <<55, 57, 44, 49>>),
     FdcLine(FDC_READ_SECTOR, <<55, 57, 44, 49, 55>>),
     FdcLine(FDC_SEARCH_ID, <<>>), FdcLine(FDC_WRITE_ID, <<48>>),
     FdcLine(FDC_WRITE_SECTOR, <<55, 57, 44, 49>>),
     FdcLine(FDC_WRITE_SECTOR, <<55, 57, 44, 49, 55>>),
     <<FDC_CMD_EOL>>, <<5>>, IdData, SectorData}

CacheMenu ==
    {Frame(REQ_FORMAT, <<>>), CacheFrame(CACHE_LOAD, 0, 0),
     CacheFrame(CACHE_LOAD, 79, 1), CacheFrame(CACHE_COMMIT, 79, 1),
     CacheFrame(CACHE_COMMIT_VERIFY, 0, 1), CacheFrame(3, 0, 0),
     CacheFrame(CACHE_LOAD, 80, 0)}

\* sector IDs with a zero byte at the start and in the middle
IdZeroFirst == <<0>> \o Rep(5, SECTOR_ID_LEN - 1)
IdZeroMid == <<5, 0>> \o Rep(5, SECTOR_ID_LEN - 2)
IdZeroMid2 == <<5, 0>> \o Rep(6, SECTOR_ID_LEN - 2)
SearchMenu ==
    {FdcFrame, FdcLine(FDC_SEARCH_ID, <<>>), FdcLine(FDC_WRITE_ID, <<49>>),
     FdcLine(FDC_WRITE_ID, <<50>>), IdData, IdZeroFirst, IdZeroMid, IdZeroMid2,
     <<FDC_CMD_EOL>>}

\* FDC commands with parameters in and out of range: A5, A80, R5,0, R5,21,
\* R5,20 and the condition command
ParamMenu ==
    {FdcFrame, FdcLine(FDC_READ_ID, <<53>>), FdcLine(FDC_READ_ID, <<56, 48>>),
     FdcLine(FDC_READ_SECTOR, <<53, 44, 48>>),
     FdcLine(FDC_READ_SECTOR, <<53, 44, 50, 49>>),
     FdcLine(FDC_READ_SECTOR, <<53, 44, 50, 48>>),
     FdcLine(FDC_CONDITION, <<>>), FdcLine(FDC_SET_MODE, <<49>>), <<FDC_CMD_EOL>>}

\* cache requests in and out of range, and writes into the cache: two data
\* bytes at offset 0 of the sector data, one byte at 0x8004, the first byte
\* of the header
CacheRwMenu ==
    {Frame(REQ_FORMAT, <<>>), CacheFrame(CACHE_LOAD, 0, 0),
     CacheFrame(CACHE_LOAD, 79, 1), CacheFrame(CACHE_COMMIT, 79, 1),
     CacheFrame(CACHE_COMMIT_VERIFY, 0, 1), CacheFrame(CACHE_LOAD, 80, 0),
     CacheFrame(CACHE_COMMIT, 0, 2), CacheFrame(3, 0, 0),
     Frame(REQ_MEM_WRITE, <<0, 0, 0, 7, 8>>), Frame(REQ_MEM_WRITE, <<1, 128, 4, 9>>)}

\* the requests answered with a standard status packet
RenameFrame(n) ==
    Frame(REQ_RENAME, PadTrunc(n, TPDD_FILENAME_LEN, TPDD_FILENAME_LEN) \o <<ATTR_DEF>>)
SimpleMenu ==
    {SetName(C_A_BA), SetName(C_N_DO), Frame(REQ_OPEN, <<F_OPEN_WRITE>>),
     Frame(REQ_OPEN, <<F_OPEN_APPEND>>), Frame(REQ_OPEN, <<F_OPEN_READ>>),
     Frame(REQ_OPEN, <<9>>), Frame(REQ_WRITE, <<9>>), Frame(REQ_CLOSE, <<>>),
     Frame(REQ_DELETE, <<>>), RenameFrame(C_N_DO), Frame(REQ_STATUS, <<>>),
     Frame(REQ_FORMAT, <<>>)}

\* requests under their opcode, under opcode + 0x40 and under the synonyms
\* 0x0E..0x12 of 0x30..0x34
AliasMenu ==
    {Frame(REQ_STATUS, <<>>), Frame(REQ_STATUS + 64, <<>>), Frame(17, <<>>),
     Frame(17 + 64, <<>>), Frame(REQ_SYSINFO, <<>>), Frame(REQ_SYSINFO + 64, <<>>),
     Frame(15, <<1, 128, 4, 9>>), Frame(16, <<1, 128, 4, 1>>),
     Frame(14, <<0, 0, 0, 0, 0>>), Frame(18, <<0, 0, 0>>),
     GetFirst, GetNext, SetName(C_A_BA),
     Frame(REQ_DIRENT + 64,
           PadTrunc(<<>>, TPDD_FILENAME_LEN, TPDD_FILENAME_LEN) \o <<0, DIRENT_GET_FIRST>>),
     Frame(REQ_OPEN, <<F_OPEN_READ>>), Frame(REQ_OPEN + 64, <<F_OPEN_READ>>),
     Frame(REQ_READ, <<>>), Frame(REQ_READ + 64, <<>>), Frame(REQ_CLOSE + 64, <<>>)}

\* the profile NameBase.NameExt, padded or not, upcasing or not, with or
\* without the truncation marker
NameBase == 2
NameExt == 1
MaxNameLen == 6
NameCfg(pad, up, tl) ==
    [K85(1, FALSE, {}) EXCEPT !.base_len = NameBase, !.ext_len = NameExt,
                              !.pad_fn = pad, !.upcase = up, !.tildes = tl]
\* host names of an upper-case letter, a lower-case letter and dots
NameChars == {65, 98, DOT}
HostNames ==
    UNION {[1..k -> NameChars] : k \in 1..MaxNameLen} \ {<<DOT>>, N_DOTDOT}

\* FDC mode input that is no command: the terminator alone, "Q", "Q99", a
\* zero byte, single bytes; and the condition and mode commands
GarbageMenu ==
    {FdcFrame, <<FDC_CMD_EOL>>, <<81, FDC_CMD_EOL>>, <<81, 57, 57, FDC_CMD_EOL>>,
     <<0>>, <<81>>, FdcLine(FDC_CONDITION, <<>>), FdcLine(FDC_SET_MODE, <<49>>),
     Frame(REQ_STATUS, <<>>)}

\* what the client that deletes a file and a directory may send
DeleteMenu ==
    {SetName(C_A_BA), SetName(C_SUB_DIR), SetName(C_N_DO), GetFirst, GetNext,
     Frame(REQ_DELETE, <<>>), Frame(REQ_STATUS, <<>>)}

\* a client that may stop anywhere: the head of a status block and its
\* last two bytes one by one, whole blocks, FDC command lines, and the
\* byte and the ID the FDC handlers wait for
StallMenu ==
    {FdcFrame, <<OPR_CMD_SYNC, OPR_CMD_SYNC, REQ_STATUS>>, <<0>>, <<248>>,
     Frame(REQ_STATUS, <<>>), FdcLine(FDC_SET_MODE, <<49>>),
     FdcLine(FDC_READ_ID, <<48>>), FdcLine(FDC_READ_SECTOR, <<48, 44, 49>>),
     FdcLine(FDC_SEARCH_ID, <<>>), FdcLine(FDC_WRITE_ID, <<48>>),
     FdcLine(FDC_WRITE_SECTOR, <<48, 44, 49>>),
     <<FDC_CMD_EOL>>, <<5>>, IdData}

\* a profile with a disk image file named on the command line
WithImage(c) == [c EXCEPT !.image = TRUE]

\* the blocks checksum() is applied to
CkPattern(kind, n) ==
    [i \in 1..n |-> IF kind = 0 THEN 0 ELSE IF kind = 1 THEN 255 ELSE (i * 7) % 256]
CkInputs ==
    {<<op, n>> \o CkPattern(kind, n) \o trail :
        op \in {0, OPR_CMD_SYNC, 255}, n \in 0..MaxCkLen, kind \in {0, 1, 2},
        trail \in {<<>>, <<255, 1>>}}

InitDisk(cfgs, fss, imgs) ==
    /\ cfg \in cfgs
    /\ fs \in fss
    /\ img \in imgs
    /\ fdc_wait = NoWait
    /\ line = <<>>
    /\ tx = <<>>
    /\ operation_mode = MODE_OPR
    /\ in_dme = 0
    /\ ch = 255
    /\ bank = 0
    /\ pwd = ShareRoot
    /\ cwd = ShareRoot
    /\ dir_depth = 0
    /\ dme_cwd = TSDOS_ROOT_LABEL \o <<0>>
    /\ file_list = <<>>
    /\ cursor = 0
    /\ f_static = NullEntry
    /\ cur_file = NullPtr
    /\ o_file_h = -1
    /\ o_file = NoFile
    /\ pdd2_condition = 0
    /\ mem = <<>>
    /\ f_open_mode = F_OPEN_NONE
    /\ crashed = FALSE
    /\ last = NoStep
    /\ termRun = 0
    /\ dme_done = FALSE
    /\ valid_p = 255
    /\ last_open = F_OPEN_NONE
    /\ disk_img_fd = -1
    /\ client_termios = [vmin |-> C_CC_VMIN, vtime |-> C_CC_VTIME]

InitWith(cfgs, fss) == InitDisk(cfgs, fss, {NoImage})

Init ==
    /\ InitWith({K85(1, TRUE, ProtoMenu), K85(1, FALSE, ProtoMenu),
                 K85(2, TRUE, ProtoMenu)}, {PlainFs})
    /\ ck_in = <<0, 0>>
    /\ ck_out = 0

Next == Send \/ OprStep \/ OprScan \/ FdcStep

\* mode switching and the DME handshake
Spec == Init /\ [][Next]_vars

InitDir ==
    /\ InitWith({K85(1, TRUE, DirMenu), K85(2, TRUE, DirMenu)},
                {PlainFs, DanglingFs, UnreadableFs})
    /\ ck_in = <<0, 0>>
    /\ ck_out = 0

\* directory listings
SpecDir == InitDir /\ [][Next]_vars

InitFile ==
    /\ InitWith({K85(1, TRUE, FileMenu)}, {PlainFs})
    /\ ck_in = <<0, 0>>
    /\ ck_out = 0

NextFile == Send \/ OprStep

\* files
SpecFile == InitFile /\ [][NextFile]_vars

InitRead ==
    /\ InitWith({K85(1, TRUE, ReadMenu)}, {ReadFs(n) : n \in ReadLens})
    /\ ck_in = <<0, 0>>
    /\ ck_out = 0

\* reading files
SpecRead == InitRead /\ [][NextFile]_vars

InitNav ==
    /\ InitWith({K85(1, TRUE, NavMenu)}, {PlainFs})
    /\ ck_in = <<0, 0>>
    /\ ck_out = 0

\* walking the directories
SpecNav == InitNav /\ [][NextFile]_vars

InitMagic ==
    /\ InitWith({K85(1, TRUE, MagicMenu),
                 [K85(1, TRUE, MagicMenu) EXCEPT !.enable_magic_files = FALSE]},
                {PlainFs, MagicFs})
    /\ ck_in = <<0, 0>>
    /\ ck_out = 0

\* magic files
SpecMagic == InitMagic /\ [][NextFile]_vars

InitImage ==
    /\ \/ InitDisk({WithImage(K85(1, FALSE, FdcMenu))}, {PlainFs},
                   {NoImage, EmptyImage, BlankImage(PDD1_RECORDS), Formatted(1),
                    ReadOnly(Formatted(1))})
       \/ InitDisk({WithImage(K85(2, FALSE, CacheMenu))}, {PlainFs},
                   {NoImage, EmptyImage, BlankImage(PDD2_RECORDS),
                    ReadOnly(BlankImage(PDD2_RECORDS))})
       \/ InitDisk({K85(1, FALSE, FdcMenu)}, {PlainFs}, {NoImage})
    /\ ck_in = <<0, 0>>
    /\ ck_out = 0

NextDisk == Send \/ OprStep \/ FdcStep \/ FdcData

\* sector access to the disk image
SpecDisk == InitImage /\ [][NextDisk]_vars

InitSearch ==
    /\ InitDisk({WithImage(K85(1, FALSE, SearchMenu))}, {PlainFs},
                {BlankImage(PDD1_RECORDS), Formatted(1)})
    /\ ck_in = <<0, 0>>
    /\ ck_out = 0

\* searching the sector IDs
SpecSearch == InitSearch /\ [][NextDisk]_vars

InitParam ==
    /\ InitDisk({WithImage(K85(1, FALSE, ParamMenu))}, {PlainFs},
                {BlankImage(PDD1_RECORDS), Formatted(1)})
    /\ ck_in = <<0, 0>>
    /\ ck_out = 0

\* the parameters of FDC commands
SpecParam == InitParam /\ [][NextDisk]_vars

InitCache ==
    /\ InitDisk({WithImage(K85(2, FALSE, CacheRwMenu))}, {PlainFs},
                {NoImage, BlankImage(PDD2_RECORDS), ReadOnly(BlankImage(PDD2_RECORDS))})
    /\ ck_in = <<0, 0>>
    /\ ck_out = 0

\* the TPDD2 sector cache
SpecCache == InitCache /\ [][NextFile]_vars

InitSimple ==
    /\ InitWith({K85(1, FALSE, SimpleMenu), K85(2, FALSE, SimpleMenu)}, {PlainFs})
    /\ ck_in = <<0, 0>>
    /\ ck_out = 0

\* the requests with a one-byte answer
SpecSimple == InitSimple /\ [][NextFile]_vars

InitAlias ==
    /\ InitWith({K85(1, FALSE, AliasMenu), K85(2, FALSE, AliasMenu)}, {PlainFs})
    /\ ck_in = <<0, 0>>
    /\ ck_out = 0

\* the opcode aliases
SpecAlias == InitAlias /\ [][NextFile]_vars

InitName ==
    /\ InitWith({NameCfg(pad, up, tl) : pad \in BOOLEAN, up \in BOOLEAN, tl \in BOOLEAN},
                {PlainFs})
    /\ ck_in = <<0, 0>>
    /\ ck_out = 0

NameUnchanged ==
    UNCHANGED <<cfg, line, tx, operation_mode, in_dme, ch, bank, fs, pwd, cwd,
                dir_depth, dme_cwd, file_list, cursor, cur_file,
                o_file_h, o_file, pdd2_condition, mem, f_open_mode, crashed, img,
                fdc_wait, termRun, dme_done, valid_p, last_open,
                disk_img_fd, client_termios, ck_in, ck_out>>

\* make_file_entry() applied to a host name
TranslateStep ==
    /\ last.op = "init"
    /\ \E n \in HostNames, fl \in {FE_FLAGS_NONE, FE_FLAGS_DIR} :
           f_static' = make_file_entry(n, default_attr, 0, fl)
    /\ last' = [NoStep EXCEPT !.op = "translate"]
    /\ NameUnchanged

\* make_file_entry() applied to the client name it has made
RetranslateStep ==
    /\ last.op = "translate"
    /\ f_static' = make_file_entry(f_static.client_fname, default_attr, 0, FE_FLAGS_NONE)
    /\ last' = [NoStep EXCEPT !.op = "retranslate"]
    /\ NameUnchanged

\* collapse_padded_fname() applied to the client name in f
CollapseStep ==
    /\ last.op = "translate"
    /\ f_static' = [f_static EXCEPT
                      !.client_fname = CStr(collapse_padded_fname(Buf(f_static.client_fname)))]
    /\ last' = [NoStep EXCEPT !.op = "collapse"]
    /\ NameUnchanged

NextName == TranslateStep \/ RetranslateStep \/ CollapseStep

\* file name translation as a function of the host name and the profile
SpecName == InitName /\ [][NextName]_vars

InitGarbage ==
    /\ InitWith({K85(1, FALSE, GarbageMenu), K85(2, FALSE, GarbageMenu)}, {PlainFs})
    /\ ck_in = <<0, 0>>
    /\ ck_out = 0

\* input that is no FDC command
SpecGarbage == InitGarbage /\ [][Next]_vars

InitDelete ==
    /\ InitWith({K85(1, TRUE, DeleteMenu), K85(1, FALSE, DeleteMenu),
                 K85(2, FALSE, DeleteMenu)}, {PlainFs})
    /\ ck_in = <<0, 0>>
    /\ ck_out = 0

\* deleting files and directories
SpecDelete == InitDelete /\ [][NextFile]_vars

InitStall ==
    /\ InitDisk({WithImage(K85(1, FALSE, StallMenu))}, {PlainFs}, {Formatted(1)})
    /\ ck_in = <<0, 0>>
    /\ ck_out = 0

\* the emulator takes every step its input allows; the client may stop
SpecStall ==
    InitStall /\ [][NextDisk]_vars
    /\ WF_vars(OprStep) /\ WF_vars(FdcStep) /\ WF_vars(FdcData)

InitCreate ==
    /\ InitWith({K85(1, TRUE, CreateMenu)}, {PlainFs})
    /\ ck_in = <<0, 0>>
    /\ ck_out = 0

\* saving a new file and listing it
SpecCreate == InitCreate /\ [][NextFile]_vars

InitCk ==
    /\ InitWith({K85(1, TRUE, {})}, {PlainFs})
    /\ ck_in \in CkInputs
    /\ ck_out = -1

\* checksum() applied to ck_in
ChecksumStep ==
    /\ ck_out = -1
    /\ ck_out' = checksum(ck_in)
    /\ UNCHANGED <<cfg, line, tx, operation_mode, in_dme, ch, bank, fs, pwd, cwd,
                   dir_depth, dme_cwd, file_list, cursor, f_static, cur_file,
                   o_file_h, o_file, pdd2_condition, mem, f_open_mode, crashed, img,
                   fdc_wait, last, termRun, dme_done, valid_p, last_open,
                   disk_img_fd, client_termios, ck_in>>

NextCk == ChecksumStep

\* the checksum as a function of its input
SpecCk == InitCk /\ [][NextCk]_vars

\* ------------------------------------------------------------------------
\* Properties
\* ------------------------------------------------------------------------

\* the sum of the elements of q
RECURSIVE SumRange(_, _, _)
SumRange(q, lo, hi) ==
    IF lo > hi THEN 0
    ELSE IF lo = hi THEN q[lo]
    ELSE LET mid == (lo + hi) \div 2
         IN  SumRange(q, lo, mid) + SumRange(q, mid + 1, hi)
SumSeq(q) == SumRange(q, 1, Len(q))

\* the standard response block with error code e, byte by byte
StdBlock(e) == <<18, 1, e, 255 - ((18 + 1 + e) % 256)>>

\* the variables a handler may change, the line and the response left out
EmuUnchanged ==
    UNCHANGED <<operation_mode, in_dme, ch, bank, fs, pwd, cwd, dir_depth, dme_cwd,
                file_list, cursor, f_static, cur_file, o_file_h, o_file,
                pdd2_condition, mem, f_open_mode, crashed, img, fdc_wait>>

C2_AsStated ==
    [][(last'.op = "opr" /\ last'.ok /\ ~crashed') =>
          /\ Len(tx') <= 1
          /\ (last'.cmd = REQ_DIRENT
                /\ last'.sub \in {DIRENT_SET_NAME, DIRENT_GET_FIRST})
             => Len(tx') = 1]_vars

\* the DME response block around the label, byte by byte
DmeBlock(label) ==
    LET b == <<18, 11, 0>> \o label \o <<0, 0, 0, 0>>
    IN  b \o <<255 - (SumSeq(b) % 256)>>

IsDmeResponse(t) == Len(t) = 1 /\ Len(t[1]) = 14 /\ t[1][2] = 11

\* C3 as stated: an FDC-switch request gets the DME response only when it is
\* the second of two terminator-bearing probes in a row since the last
\* get-first, no other probe between them.
C3_AsStated ==
    [][(last'.op = "opr" /\ last'.cmd = REQ_FDC /\ IsDmeResponse(tx'))
          => termRun' >= 2]_vars

C5_GetFirstResets ==
    [][/\ (last'.op = "opr" /\ last'.ok /\ last'.cmd = REQ_DIRENT
             /\ last'.sub = DIRENT_GET_FIRST) => in_dme' = 0
       /\ (model = 1 /\ in_dme = 0 /\ last'.op = "opr" /\ last'.ok
             /\ last'.cmd = REQ_FDC /\ last'.probe # FDC_CMD_EOL)
          => (operation_mode' = MODE_FDC /\ tx' = <<>>)]_vars

C5_Witness ==
    /\ dme_done /\ in_dme = 0 /\ last.op = "opr" /\ last.cmd = REQ_FDC
    /\ operation_mode = MODE_FDC /\ tx = <<>>

\* C5 as stated: the same for every drive model.
C5_AsStated ==
    [][/\ (last'.op = "opr" /\ last'.ok /\ last'.cmd = REQ_DIRENT
             /\ last'.sub = DIRENT_GET_FIRST) => in_dme' = 0
       /\ (in_dme = 0 /\ last'.op = "opr" /\ last'.ok
             /\ last'.cmd = REQ_FDC /\ last'.probe # FDC_CMD_EOL)
          => (operation_mode' = MODE_FDC /\ tx' = <<>>)]_vars

\* C6 as stated: a probe byte other than the terminator switches to FDC mode
\* and is the first byte of the next FDC command.
C6_AsStated ==
    [][/\ (last'.op = "opr" /\ last'.probe >= 0 /\ last'.probe # FDC_CMD_EOL)
          => (operation_mode' = MODE_FDC /\ ch' = last'.probe)
       /\ (operation_mode = MODE_FDC /\ dme_en /\ ch # 0 /\ last'.op = "fdc")
          => last'.first = ch]_vars

\* the sub-directories of the process directory
SubDirs == {n \in {fs[pwd].order[i] : i \in 1..Len(fs[pwd].order)} :
               IsDir(fs, Append(pwd, n))}
Listed(list, n) ==
    \E i \in 1..Len(list) : list[i].local_fname = n /\ list[i].flags = FE_FLAGS_DIR

\* C7 as stated: after a completed handshake every rebuild by set-name or
\* get-first lists the sub-directories as directory entries.
C7_AsStated ==
    [][(dme_done /\ last'.op = "opr" /\ last'.ok /\ last'.cmd = REQ_DIRENT
          /\ last'.sub \in {DIRENT_SET_NAME, DIRENT_GET_FIRST}
          /\ Len(tx') = 1)
       => \A n \in SubDirs : Listed(file_list', n)]_vars

\* the parameter string of the FDC command at the head of the input
FdcTokens == strtok(CStr(FdcRead(ch, line).gb))

\* C8: 'M' with parameter 1 or 0 sends nothing and sets the mode at once;
\* the bytes behind its terminator stay in the line, and each step of the
\* command loop runs the receiver of the current mode.
C8_SetMode ==
    [][/\ (last'.op = "fdc" /\ last'.cmd = FDC_SET_MODE /\ FdcTokens = <<(<<49>>)>>)
          => (tx' = <<>> /\ operation_mode' = MODE_OPR
              /\ line' = FdcRead(ch, line).rest)
       /\ (last'.op = "fdc" /\ last'.cmd = FDC_SET_MODE /\ FdcTokens = <<(<<48>>)>>)
          => (tx' = <<>> /\ operation_mode' = MODE_FDC
              /\ line' = FdcRead(ch, line).rest)
       /\ (last'.op \in {"opr", "scan"}) => operation_mode # MODE_FDC
       /\ (last'.op = "fdc") => operation_mode = MODE_FDC]_vars

C8_Witness ==
    /\ last.op = "fdc" /\ last.cmd = FDC_SET_MODE /\ tx = <<>>
    /\ operation_mode = MODE_OPR /\ line # <<>>

\* C9: the checksum is 255 minus the low byte of opcode + length + payload
\* bytes, whatever follows the payload.
C9_Checksum ==
    ck_out # -1 =>
        /\ ck_out = 255 - ((ck_in[1] + ck_in[2]
                            + SumSeq(SubSeq(ck_in, 3, 2 + ck_in[2]))) % 256)
        /\ ck_out = checksum(Take(ck_in, 2 + ck_in[2]))

C9_Witness == ck_out # -1 /\ ck_in[2] = MaxCkLen /\ Len(ck_in) > 2 + ck_in[2]

\* the host path of the current file
CurPath == Resolve(pwd, Deref(Cur(line, <<>>), cur_file).local_fname)
CurEntry == Deref(Cur(line, <<>>), cur_file)
OpenWriteStep ==
    /\ last'.op = "opr" /\ last'.ok /\ last'.cmd = REQ_OPEN
    /\ last'.sub = F_OPEN_WRITE /\ cur_file.ptr # "null"

\* C10 (amended): open for write of a current file whose host path exists is
\* answered with an error, changes nothing on the host and leaves no file
\* open; for a current file that is not directory-marked, has a name and does
\* not exist, it creates the empty file and leaves it open for writing.
C10_OpenWrite ==
    [][/\ (OpenWriteStep /\ Exists(fs, CurPath))
          => /\ Len(tx') = 1 /\ tx'[1][1] = 18 /\ tx'[1][3] # ERR_SUCCESS
             /\ fs' = fs
             /\ o_file_h' = -1
       /\ (OpenWriteStep /\ ~Exists(fs, CurPath)
             /\ CurEntry.flags # FE_FLAGS_DIR /\ CurEntry.local_fname # <<>>)
          => /\ tx' = <<StdBlock(ERR_SUCCESS)>>
             /\ IsFile(fs', CurPath) /\ fs'[CurPath].data = <<>>
             /\ \A q \in DOMAIN fs \ {Parent(CurPath)} : fs'[q] = fs[q]
             /\ o_file_h' >= 0 /\ o_file'.path = CurPath
             /\ f_open_mode' = F_OPEN_WRITE]_vars

C10_Witness ==
    /\ last.op = "opr" /\ last.cmd = REQ_OPEN /\ last.sub = F_OPEN_WRITE
    /\ tx = <<StdBlock(ERR_FMT_MISMATCH)>>
    /\ CurPath = <<N_S, N_A_BA>> /\ fs[CurPath].data = <<1, 2, 3>>
    /\ o_file_h = -1
    /\ IsFile(fs, <<N_S, N_N_DO>>)

\* C10 as stated: open for write of any current file that does not exist
\* creates the file and leaves it open for writing.
C10_AsStated ==
    [][/\ (OpenWriteStep /\ Exists(fs, CurPath))
          => /\ Len(tx') = 1 /\ tx'[1][3] # ERR_SUCCESS
             /\ fs' = fs
             /\ o_file_h' = -1
       /\ (OpenWriteStep /\ ~Exists(fs, CurPath))
          => /\ IsFile(fs', CurPath)
             /\ o_file_h' >= 0
             /\ f_open_mode' = F_OPEN_WRITE]_vars

\* the bytes of the open file in the current state
CurData == OpenData([o_file |-> o_file, fs |-> fs])
ReadOpen == o_file_h >= 0 /\ f_open_mode = F_OPEN_READ
ReadChunk == SubSeq(CurData, o_file.pos + 1,
                    Min(o_file.pos + REQ_RW_DATA_MAX, Len(CurData)))

\* a read request received while a file is open for reading
ReadStep == ReadOpen /\ last'.op = "opr" /\ last'.ok /\ last'.cmd = REQ_READ

\* C11: an open for read starts at offset 0; each read request then answers
\* with the next bytes of the file, 128 of them unless the file ends sooner,
\* and moves the offset past them; no other request but open and close moves
\* the offset or changes the bytes, so the chunks put together are the file
C11_ReadChunks ==
    [][/\ (last'.op = "opr" /\ last'.ok /\ last'.cmd = REQ_OPEN
            /\ last'.sub = F_OPEN_READ /\ o_file_h' >= 0)
           => (ReadOpen' /\ o_file'.pos = 0
               /\ tx' = <<Packet(RET_STD[1], <<ERR_SUCCESS>>)>>)
       /\ ReadStep
           => /\ tx' = <<Packet(RET_READ, ReadChunk)>>
              /\ Len(ReadChunk) <= REQ_RW_DATA_MAX
              /\ Len(ReadChunk) < REQ_RW_DATA_MAX
                    => o_file'.pos = Len(CurData)
              /\ o_file'.pos = o_file.pos + Len(ReadChunk)
              /\ ReadOpen' /\ CurData' = CurData
       /\ (ReadOpen /\ ~(last'.op = "opr" /\ last'.ok
                          /\ last'.cmd \in {REQ_OPEN, REQ_CLOSE, REQ_READ}))
           => (crashed' \/ (ReadOpen' /\ o_file'.pos = o_file.pos
                            /\ CurData' = CurData))]_vars

\* a file longer than one block was read to its end: the last answer is short
C11_Witness ==
    /\ ReadOpen /\ last.op = "opr" /\ last.cmd = REQ_READ
    /\ Len(CurData) > REQ_RW_DATA_MAX
    /\ o_file.pos = Len(CurData)
    /\ Len(tx) = 1 /\ tx[1][2] < REQ_RW_DATA_MAX

\* the directory of the process is the share root or lies below it
InShare ==
    Len(pwd) >= Len(ShareRoot) /\ SubSeq(pwd, 1, Len(ShareRoot)) = ShareRoot

\* C12: the directory depth is never negative and the working directory
\* never leaves the share root
C12_AsStated == dir_depth >= 0 /\ InShare

\* the trimmed name of the set-name request at the head of the input
ReqName == CStr(TrimTrailing(Buf(CStr(Sub(SubSeq(line, 3, Len(line)), 2,
                                          TPDD_FILENAME_LEN)))))
SetNameStep ==
    /\ last'.op = "opr" /\ last'.ok /\ last'.cmd = REQ_DIRENT
    /\ last'.sub = DIRENT_SET_NAME

\* the dirent block that describes a file of len bytes under the client name
DirentBlock(name, attr, len) ==
    Packet(RET_DIRENT[1], PadTrunc(name, TPDD_FILENAME_LEN, TPDD_FILENAME_LEN)
                          \o <<attr, (len \div 256) % 256, len % 256, 80>>)
EmptyDirent == Packet(RET_DIRENT[1], Rep(0, TPDD_FILENAME_LEN + 3) \o <<80>>)

ShareCopy(n) == Append(ShareRoot, n)
LibCopy(n) == <<N_L, n>>

\* C13 as stated: set-name answers with the entry of the rebuilt cache that
\* has the name; else, for a magic name with magic files enabled, with the
\* copy in the share root, or failing that the copy in the library directory;
\* else with the empty dirent, and the current file is a new entry.
C13_AsStated ==
    [][SetNameStep =>
        LET hit == find_file(file_list', ReqName, 0)
            magic == enable_magic_files /\ ReqName \in magic_files
            copy == IF IsFile(fs, ShareCopy(ReqName)) THEN ShareCopy(ReqName)
                    ELSE LibCopy(ReqName)
        IN  IF hit # 0
            THEN /\ cur_file' = ListPtr(hit)
                 /\ tx' = <<DirentBlock(file_list'[hit].client_fname,
                                        file_list'[hit].attr, file_list'[hit].len)>>
            ELSE IF magic /\ IsFile(fs, copy)
            THEN /\ cur_file' = StaticPtr
                 /\ Resolve(pwd, f_static'.local_fname) = copy
                 /\ tx' = <<DirentBlock(ReqName, f_static'.attr,
                                        Len(fs[copy].data))>>
            ELSE /\ cur_file' = StaticPtr
                 /\ f_static'.len = 0
                 /\ tx' = <<EmptyDirent>>]_vars

\* the files of the current directory that the client has made and closed
Saved ==
    {p \in DOMAIN fs \ DOMAIN PlainFs :
        /\ Parent(p) = pwd /\ fs[p].kind = "file"
        /\ (o_file_h < 0 \/ o_file.path # p)}
Entries(list, n) == {i \in 1..Len(list) : list[i].local_fname = n}
DirentStep(a) ==
    /\ last'.op = "opr" /\ last'.ok /\ last'.cmd = REQ_DIRENT /\ last'.sub = a
EntryBlock(list, i) ==
    IF i = 0 THEN EmptyDirent
    ELSE DirentBlock(list[i].client_fname, list[i].attr, list[i].len)

\* C14 as stated: the listing that get-first starts holds exactly one entry
\* for each file the client has created, written and closed in the directory,
\* with the size written and the formatted name; get-first returns the first
\* entry, get-next the one after the last returned, and the empty dirent
\* follows the last entry.
C14_AsStated ==
    [][/\ DirentStep(DIRENT_GET_FIRST)
          => /\ \A p \in Saved :
                   /\ Cardinality(Entries(file_list', Leaf(p))) = 1
                   /\ \A i \in Entries(file_list', Leaf(p)) :
                         /\ file_list'[i].len = Len(fs[p].data)
                         /\ file_list'[i].client_fname =
                               make_file_entry(Leaf(p), 0, 0, FE_FLAGS_NONE).client_fname
             /\ cursor' = IF file_list' = <<>> THEN 0 ELSE 1
             /\ tx' = <<EntryBlock(file_list', cursor')>>
       /\ DirentStep(DIRENT_GET_NEXT)
          => /\ file_list' = file_list
             /\ cursor' = IF cursor < Len(file_list) THEN cursor + 1 ELSE 0
             /\ tx' = <<EntryBlock(file_list', cursor')>>]_vars

\* the entry the current-file slot refers to, before and after a step
SlotEntry == Deref([f_static |-> f_static, file_list |-> file_list], cur_file)
SlotEntryNext == Deref([f_static |-> f_static', file_list |-> file_list'], cur_file')
OprCmdStep(c) == last'.op = "opr" /\ last'.ok /\ last'.cmd = c

\* C15 as stated: after set-name the slot is the entry set-name selected,
\* after get-first, get-next and get-previous it is the entry returned, a
\* close request leaves the slot invalid, and no other request changes it.
C15_AsStated ==
    [][/\ (SetNameStep /\ find_file(file_list', ReqName, 0) # 0)
          => SlotEntryNext = file_list'[find_file(file_list', ReqName, 0)]
       /\ ((DirentStep(DIRENT_GET_FIRST) \/ DirentStep(DIRENT_GET_NEXT)
               \/ DirentStep(DIRENT_GET_PREV)) /\ cursor' # 0)
          => (cur_file'.ptr # "null" /\ SlotEntryNext = file_list'[cursor'])
       /\ OprCmdStep(REQ_CLOSE) => cur_file'.ptr = "null"
       /\ (last'.op = "opr" /\ last'.ok
              /\ last'.cmd \notin {REQ_DIRENT, REQ_CLOSE})
          => (crashed' \/ SlotEntryNext = SlotEntry)]_vars

\* the FDC command get_fdc_cmd() is about to read, and its two numbers
FdcReq == FdcRead(ch, line)
FdcTok == strtok(CStr(FdcReq.gb))
FdcP == IF Len(FdcTok) >= 1 THEN atoi(FdcTok[1]) ELSE 0
FdcL == IF Len(FdcTok) >= 2 THEN atoi(FdcTok[2]) ELSE 1
FdcCmdStep(cmds) == last'.op = "fdc" /\ last'.cmd \in cmds

\* the image can be opened and holds the header of record p
HeaderAt(p) == cfg.image /\ img.exists /\ img.len >= p * SECTOR_LEN + SECTOR_HEADER_LEN
\* the logical size the size code of record p stands for
SizeAt(p) == LogicalSize(ImgByte(img, p * SECTOR_LEN))
SectorOffset(p, l) == p * SECTOR_LEN + SECTOR_HEADER_LEN + (l - 1) * SizeAt(p)
FdcError(e) == Len(tx') = 1 /\ Take(tx'[1], 2) = Hex2(e)

\* C16 as stated: a read-sector or write-sector command for (p, l) whose
\* l * logical_size exceeds the 1280-byte data area is answered with the
\* logical-sector-number-high error and transfers nothing; any other one
\* accesses the image at p * 1293 + 13 + (l - 1) * logical_size.
C16_AsStated ==
    [][(/\ FdcCmdStep({FDC_READ_SECTOR, FDC_WRITE_SECTOR, FDC_WRITE_SECTOR_NV})
        /\ FdcP \in 0..79 /\ FdcL \in 1..20
        /\ HeaderAt(FdcP)
        /\ (last'.cmd = FDC_READ_SECTOR \/ img.writable))
       => IF FdcL * SizeAt(FdcP) > SECTOR_DATA_LEN
          THEN FdcError(ERR_FDC_LSN_HI) /\ fdc_wait' = NoWait /\ img' = img
          ELSE \/ fdc_wait'.op \in {"read_sector", "write_sector"}
                  /\ fdc_wait'.pos = SectorOffset(FdcP, FdcL)
               \/ FdcError(ERR_FDC_READ)]_vars

\* the records of a formatted image, and the image holding exactly those
Records == IF model = 1 THEN PDD1_RECORDS ELSE PDD2_RECORDS
FormattedLen(im) == im.exists /\ im.len = Records * SECTOR_LEN
\* the offsets whose byte a step changes
Changed == {o \in DOMAIN img.nz \cup DOMAIN img'.nz : ImgByte(img', o) # ImgByte(img, o)}
InRecord(rn) == (rn * SECTOR_LEN)..((rn + 1) * SECTOR_LEN - 1)
\* the record a cache request on the line addresses
CacheRecord == At(line, 6) * 2 + At(line, 8)

\* C17 as stated: a formatted image keeps its 80 or 160 records whatever
\* the command, and a sector write, an ID write or a cache commit changes
\* bytes of the record it addresses only.
C17_AsStated ==
    [][FormattedLen(img)
       => /\ FormattedLen(img')
          /\ (last'.op \in {"write_sector", "write_id"})
             => Changed \subseteq InRecord(fdc_wait.tp)
          /\ OprCmdStep(REQ_CACHE) => Changed \subseteq InRecord(CacheRecord)]_vars

\* a format command is carried out: FDC-mode format with valid parameters,
\* or the Operation-mode format request
FdcFormatStep ==
    FdcCmdStep({FDC_FORMAT, FDC_FORMAT_NV}) /\ FdcP \in 0..79 /\ FdcL \in 1..20
FormatStep == FdcFormatStep \/ OprCmdStep(REQ_FORMAT)
\* the image file named on the command line is missing, or is empty
NoImageYet == cfg.image /\ (~img.exists \/ (img.writable /\ img.len = 0))
FormatSuccess ==
    IF last'.op = "fdc" THEN tx' = <<FdcStd(ERR_FDC_SUCCESS, 0, 0)>>
    ELSE tx' = <<StdBlock(ERR_SUCCESS)>>

\* C18 as stated: a format command in either mode, given a missing or an
\* empty image file, leaves the file existing with all its formatted records
\* and answers success.
C18_AsStated ==
    [][(FormatStep /\ NoImageYet)
       => (FormattedLen(img') /\ FormatSuccess)]_vars

\* the requests that read the disk image and those that write it; a cache
\* request on the line has its action at byte 4, track at 6 and sector at 8
FdcArgsOk == FdcP \in 0..79 /\ FdcL \in 1..20
CacheStep(actions) ==
    /\ OprCmdStep(REQ_CACHE) /\ model = 2
    /\ At(line, 6) < 80 /\ At(line, 8) < 2 /\ At(line, 4) \in actions
DiskReadStep ==
    \/ FdcCmdStep({FDC_READ_ID, FDC_READ_SECTOR, FDC_SEARCH_ID}) /\ FdcArgsOk
    \/ CacheStep({CACHE_LOAD})
DiskWriteStep ==
    \/ FdcCmdStep({FDC_WRITE_ID, FDC_WRITE_ID_NV, FDC_WRITE_SECTOR,
                   FDC_WRITE_SECTOR_NV}) /\ FdcArgsOk
    \/ CacheStep({CACHE_COMMIT, CACHE_COMMIT_VERIFY})
\* the one response of the step carries the error of its mode
DiskError(e_fdc, e_opr) ==
    IF last'.op = "fdc" THEN FdcError(e_fdc)
    ELSE Len(tx') = 1 /\ At(tx'[1], 2) = e_opr

\* C19 as stated: a request that writes an existing, non-writable image is
\* answered with the write-protect error, and a request that reads or writes
\* an image file that does not exist with the no-disk error.
C19_AsStated ==
    [][/\ ((DiskWriteStep \/ FormatStep) /\ img.exists /\ ~img.writable)
          => DiskError(ERR_FDC_WRITE_PROTECT, ERR_WRITE_PROTECT)
       /\ ((DiskReadStep \/ DiskWriteStep) /\ ~img.exists)
          => DiskError(ERR_FDC_NO_DISK, ERR_NO_DISK)]_vars

\* the raw bytes a waiting read-ID or read-sector command is to send: the 12
\* ID bytes of its record, or the logical sector at its offset
RawData ==
    IF fdc_wait.op = "read_id"
    THEN ImgRead(img, fdc_wait.tp * SECTOR_LEN + 1, SECTOR_ID_LEN)
    ELSE ImgRead(img, fdc_wait.pos, fdc_wait.l)

\* C20: a read-ID or read-sector command that answers success sends that
\* 8-character response alone and then waits for one byte; that byte taken,
\* it sends the raw ID or sector data if the byte is 0x0D and nothing
\* otherwise, and in both cases the emulator is back in the FDC command loop
\* with the image untouched.
C20_ConfirmByte ==
    [][/\ (FdcCmdStep({FDC_READ_ID, FDC_READ_SECTOR}) /\ FdcError(ERR_FDC_SUCCESS))
          => /\ Len(tx'[1]) = 8
             /\ fdc_wait'.op = (IF last'.cmd = FDC_READ_ID THEN "read_id"
                                ELSE "read_sector")
             /\ fdc_wait'.n = 1
       /\ (last'.op \in {"read_id", "read_sector"})
          => /\ line' = Tail(line)
             /\ tx' = (IF Head(line) = FDC_CMD_EOL THEN <<RawData>> ELSE <<>>)
             /\ fdc_wait' = NoWait
             /\ operation_mode' = MODE_FDC
             /\ img' = img]_vars

\* a read-sector command got a byte other than 0x0D and sent nothing: the
\* written sector stays unsent
C20_Witness ==
    /\ last.op = "read_sector" /\ last.first # FDC_CMD_EOL
    /\ tx = <<>> /\ fdc_wait = NoWait /\ operation_mode = MODE_FDC
    /\ ImgByte(img, 79 * SECTOR_LEN + SECTOR_HEADER_LEN) = 5

\* the records whose stored ID is the 12 bytes the client has sent
SentId == Take(line, SECTOR_ID_LEN)
ExactHits ==
    {rn \in 0..(PDD1_RECORDS - 1) :
        ImgRead(img, rn * SECTOR_LEN + 1, SECTOR_ID_LEN) = SentId}
\* the second hex pair of the one response is the byte d
FdcDataByte(d) == Len(tx') = 1 /\ SubSeq(tx'[1], 3, 4) = Hex2(d)

\* C21 as stated: search-ID on a whole image answers success with the number
\* of the first record whose 12 ID bytes are the 12 bytes sent, and
\* ID-not-found when no record has exactly these 12 bytes.
C21_AsStated ==
    [][(last'.op = "search_id" /\ FormattedLen(img))
       => IF ExactHits # {}
          THEN FdcError(ERR_FDC_SUCCESS) /\ FdcDataByte(SetMin(ExactHits))
          ELSE FdcError(ERR_FDC_ID_NOT_FOUND)]_vars

\* the step sent one response and ran no handler: image, mode and the wait
\* for data are as before
NoHandler ==
    /\ Len(tx') = 1
    /\ img' = img /\ fdc_wait' = NoWait /\ operation_mode' = operation_mode

\* C22 as stated: a physical sector above 79 is answered with the
\* physical-sector-high error carrying the last valid physical sector an
\* earlier command named (0xFF when none did), a logical sector below 1 or
\* above 20 with the logical-sector-low or -high error, and no handler runs.
C22_AsStated ==
    [][(last'.op = "fdc")
       => /\ FdcP > 79
             => (FdcError(ERR_FDC_PSN_HI) /\ FdcDataByte(valid_p) /\ NoHandler)
          /\ (FdcP \in 0..79 /\ FdcL < 1) => (FdcError(ERR_FDC_LSN_LO) /\ NoHandler)
          /\ (FdcP \in 0..79 /\ FdcL > 20) => (FdcError(ERR_FDC_LSN_HI) /\ NoHandler)]_vars

\* the header and the sector data the cache holds, the record of the image
\* as the cache would hold it, and the response to a cache request
CacheSector(m) ==
    RamGet(m, PDD2_ID_REL, SECTOR_HEADER_LEN) \o RamGet(m, PDD2_DATA_REL, SECTOR_DATA_LEN)
RecordOf(im, rn) == ImgRead(im, rn * SECTOR_LEN, SECTOR_LEN)
CacheBlock(e) == <<56, 1, e, 255 - ((56 + 1 + e) % 256)>>

\* C23: on TPDD2 a cache commit for a track below 80 and a sector below 2, the
\* image being writable or still to be created, answers success, leaves
\* record 2*t+s holding the cache's header and data, changes no other record
\* and not the cache; a cache load of a record that holds what the cache
\* holds leaves header and data of the cache as they are; a request with the
\* track or the sector out of range answers the parameter error and changes
\* neither cache nor image.
C23_CacheRoundTrip ==
    [][/\ (CacheStep({CACHE_COMMIT, CACHE_COMMIT_VERIFY}) /\ cfg.image
              /\ (img.exists => img.writable))
          => /\ tx' = <<CacheBlock(ERR_SUCCESS)>>
             /\ mem' = mem
             /\ RecordOf(img', CacheRecord) = CacheSector(mem)
             /\ Changed \subseteq InRecord(CacheRecord)
       /\ (CacheStep({CACHE_LOAD}) /\ cfg.image /\ img.exists
              /\ RecordOf(img, CacheRecord) = CacheSector(mem))
          => /\ tx' = <<CacheBlock(ERR_SUCCESS)>>
             /\ CacheSector(mem') = CacheSector(mem)
             /\ img' = img
       /\ (OprCmdStep(REQ_CACHE) /\ model = 2 /\ (At(line, 6) >= 80 \/ At(line, 8) >= 2))
          => /\ tx' = <<CacheBlock(ERR_PARAM)>>
             /\ mem' = mem
             /\ img' = img]_vars

\* a cache load has brought back the bytes written into the cache and
\* committed to record 159
C23_Witness ==
    /\ last.op = "opr" /\ last.cmd = REQ_CACHE /\ last.sub = CACHE_LOAD
    /\ tx = <<CacheBlock(ERR_SUCCESS)>>
    /\ MemGet(mem, "ram", 2) = 159
    /\ RamGet(mem, PDD2_ID_REL, 1) = <<9>>
    /\ RamGet(mem, PDD2_DATA_REL, 2) = <<7, 8>>
    /\ RecordOf(img, 159) = CacheSector(mem)

\* the requests the standard status packet answers
SimpleCmds == {REQ_OPEN, REQ_CLOSE, REQ_WRITE, REQ_DELETE, REQ_RENAME, REQ_STATUS,
               REQ_FORMAT}
OneStdBlock == \E e \in 0..255 : tx' = <<StdBlock(e)>>

\* C24 as stated: every open, close, write, delete, rename, status and format
\* request with a good checksum is answered with exactly one standard status
\* packet, on TPDD1 and on TPDD2.
C24_AsStated ==
    [][(last'.op = "opr" /\ last'.ok /\ last'.cmd \in SimpleCmds) => OneStdBlock]_vars

\* the block at the head of the line and its opcode; Handled(c, b) is the
\* state the handler of opcode c leaves for that block with the bank b
ReqBlock == SubSeq(line, 3, FrameEnd(line))
ReqOp == ReqBlock[1]
Bit6(c) == (c \div 64) % 2
Synonym(c) == IF c \in 14..18 THEN c + 34 ELSE c
Handled(c, b) == opr_switch([Cur(Drop(line, FrameEnd(line)), ReqBlock) EXCEPT !.bank = b], c)
\* the step has left what the state r holds
SameAs(r) ==
    /\ tx' = r.tx /\ fs' = r.fs /\ file_list' = r.file_list /\ cursor' = r.cursor
    /\ cur_file' = r.cur_file /\ o_file_h' = r.o_file_h /\ o_file' = r.o_file
    /\ mem' = r.mem /\ operation_mode' = r.operation_mode /\ crashed' = r.crashed
    /\ bank' = r.bank

\* C25: on TPDD2 the bank becomes bit 6 of the opcode and the block is
\* handled under the opcode with bit 6 cleared, so that opcodes c and
\* 0x40+c reach the same handler with bank 0 and bank 1; an opcode in
\* 0x0E..0x12 (after the clearing) is handled as that opcode + 0x22; on
\* TPDD1 the bank stays 0, bit 6 is kept, and a block under 0x40+c reaches
\* no handler.
C25_OpcodeAlias ==
    [][(last'.op = "opr" /\ last'.ok)
       => /\ model = 2
             => SameAs(Handled(Synonym(ReqOp - 64 * Bit6(ReqOp)), Bit6(ReqOp)))
          /\ model = 1 => (bank' = 0 /\ SameAs(Handled(Synonym(ReqOp), 0)))
          /\ (model = 1 /\ Bit6(ReqOp) = 1) => (tx' = <<>> /\ EmuUnchanged)]_vars

\* TPDD2 has answered a read request sent under opcode 0x43 with the data
\* of the file, and the bank is 1
C25_Witness ==
    /\ model = 2 /\ bank = 1
    /\ last.op = "opr" /\ last.cmd = REQ_READ
    /\ Len(tx) = 1 /\ tx[1][1] = 16 /\ tx[1][2] > 0

\* the host name in f, the position of its dot (directories have none, and
\* a leading dot is part of the base), its base and its extension
HostName == f_static.local_fname
HostDot ==
    IF f_static.flags = FE_FLAGS_NONE /\ strrchr(HostName, DOT) > 0
    THEN strrchr(HostName, DOT) ELSE -1
HostBase == IF HostDot >= 0 THEN Take(HostName, HostDot) ELSE HostName
HostExt == IF HostDot >= 0 THEN Drop(HostName, HostDot + 1) ELSE <<>>
\* the base and extension segments of the client name c
BaseSeg(c) ==
    IF pad_fn THEN Take(c, base_len)
    ELSE IF strrchr(c, DOT) >= 0 THEN Take(c, strrchr(c, DOT)) ELSE c
ExtSeg(c) == IF strrchr(c, DOT) >= 0 THEN Drop(c, strrchr(c, DOT) + 1) ELSE <<>>
EndsInTilde(seg) == Len(seg) > 0 /\ seg[Len(seg)] = TILDE

\* C26: the base (the extension) segment of the translated name ends in
\* '~' exactly when tilde marking is enabled and the host name's base
\* (extension) is longer than base_len (ext_len).
C26_AsStated ==
    last.op = "translate"
    => /\ EndsInTilde(BaseSeg(f_static.client_fname))
          <=> (tildes /\ Len(HostBase) > base_len)
       /\ EndsInTilde(ExtSeg(f_static.client_fname))
          <=> (tildes /\ Len(HostExt) > ext_len)

\* the host name needs no truncation
Fits == Len(HostBase) <= base_len /\ Len(HostExt) <= ext_len
\* the host name is a file name with one dot, not at its start
OneDot == HostDot > 0 /\ \A i \in 1..Len(HostBase) : HostBase[i] # DOT
\* the profile's case folding leaves the host name as it is
CaseKept == upcase => \A i \in 1..Len(HostName) : toupper(HostName[i]) = HostName[i]
Retranslated == last'.op = "retranslate" /\ pad_fn
Collapsed == last'.op = "collapse" /\ pad_fn /\ Fits

InvalidCmdStep == FdcCmdStep({SP})
BackInLoop == operation_mode' = MODE_FDC /\ fdc_wait' = NoWait /\ ~crashed'

DeletePath == Resolve(pwd, Deref(Cur(line, <<>>), cur_file).local_fname)
Removed == cur_file.ptr # "null" /\ DeletePath \in DOMAIN fs /\ DeletePath \notin DOMAIN fs'

\* C29 as stated: a delete request removes the current file, or the
\* current directory only if it is empty; its response reports success
\* only when the removal happened, a failed removal is reported with an
\* error code, and the session continues.
C29_AsStated ==
    [][OprCmdStep(REQ_DELETE)
       => /\ ~crashed'
          /\ Removed => tx' = <<StdBlock(ERR_SUCCESS)>>
          /\ ~Removed => (fs' = fs /\ \E e \in 1..255 : tx' = <<StdBlock(e)>>)]_vars

\* get_opr_cmd() has read the preamble of a block and waits for the rest
MidFrame ==
    /\ ~crashed /\ operation_mode # MODE_FDC
    /\ FindSync(line, 1) # 0 /\ FrameEnd(line) = 0
\* an FDC handler waits in read_client_tty() for its byte or its data
MidTransfer == ~crashed /\ fdc_wait # NoWait /\ Len(line) < fdc_wait.n
\* the emulator has left those waits
AtCommand == ~crashed /\ ~MidFrame /\ ~MidTransfer

NormalTermios == [vmin |-> C_CC_VMIN, vtime |-> C_CC_VTIME]

\* C31: whenever the emulator waits for client bytes the client tty is in
\* the normal blocking configuration (VMIN 1, VTIME 5): req_fdc has
\* restored it after the probe, whether the probe read the terminator,
\* another byte, or timed out.
C31_TermiosRestored == client_termios = NormalTermios

\* the probe of an FDC request has timed out, and the emulator is in FDC
\* mode with the normal configuration
C31_Witness ==
    /\ last.op = "opr" /\ last.cmd = REQ_FDC /\ last.probe = -1
    /\ operation_mode = MODE_FDC
    /\ client_termios = NormalTermios

\* ------------------------------------------------------------------------
\* The parent entry of a rebuilt directory cache
\* ------------------------------------------------------------------------

InitParent ==
    /\ InitWith({K85(1, TRUE, NavMenu), K85(1, FALSE, NavMenu)}, {PlainFs})
    /\ ck_in = <<0, 0>>
    /\ ck_out = 0

\* walking the directories with and without TS-DOS directories
SpecParent == InitParent /\ [][NextFile]_vars

\* the entry that update_file_list() makes for ".."
IsParentEntry(e) == e.local_fname = N_DOTDOT /\ e.flags = FE_FLAGS_DIR
\* a step in which set-name or get-first has rebuilt the cache
RebuildStep ==
    /\ last'.op = "opr" /\ last'.ok /\ last'.cmd = REQ_DIRENT
    /\ last'.sub \in {DIRENT_SET_NAME, DIRENT_GET_FIRST}

\* C32 as stated: a rebuilt directory cache starts with the parent entry
\* exactly when the process directory is below the share root and TS-DOS
\* directories are enabled; with TS-DOS directories disabled no rebuild holds
\* the parent entry or any directory entry.
C32_AsStated ==
    [][RebuildStep =>
         /\ (file_list' # <<>> /\ IsParentEntry(file_list'[1]))
              <=> (dir_depth' > 0 /\ dme_en)
         /\ ~dme_en => \A i \in 1..Len(file_list') :
                          file_list'[i].flags # FE_FLAGS_DIR]_vars

\* ------------------------------------------------------------------------
\* The two formats of a TPDD1 disk image
\* ------------------------------------------------------------------------

\* the offsets at which two images differ
FormatDiff(a, b) ==
    {o \in DOMAIN a.nz \cup DOMAIN b.nz : ImgByte(a, o) # ImgByte(b, o)}
\* the image an FDC-mode format with size code 0 leaves of the image of s
FdcFormatted(s) == req_fdc_format([s EXCEPT !.operation_mode = MODE_FDC], 0).img
\* an Operation-mode format of an image that the FDC-mode format can open
OprFormatStep ==
    /\ model = 1 /\ img.exists /\ img.writable
    /\ OprCmdStep(REQ_FORMAT) /\ tx' = <<StdBlock(ERR_SUCCESS)>>
SmtByte == SECTOR_HEADER_LEN + SMT_OFFSET

FirstProbeHonored ==
    /\ last.op = "opr" /\ last.ok /\ last.cmd = REQ_FDC
    /\ last.probe = FDC_CMD_EOL
    /\ in_dme = 1
    /\ operation_mode = MODE_FDC
    /\ line = <<>>

\* C34 as stated: a terminator that the DME probe has read counts toward the
\* handshake only; once the first FDC request of a listing cycle is honored
\* as a mode switch, the emulator sends nothing until the client has sent a
\* further command.
C34_AsStated ==
    [][(FirstProbeHonored /\ line' = <<>>) => tx' = <<>>]_vars

\* ------------------------------------------------------------------------
\* Reading and writing the open file
\* ------------------------------------------------------------------------

\* what the client that opens, reads and writes may send
OpenMenu ==
    {SetName(C_A_BA), SetName(C_N_DO),
     Frame(REQ_OPEN, <<F_OPEN_WRITE>>), Frame(REQ_OPEN, <<F_OPEN_APPEND>>),
     Frame(REQ_OPEN, <<F_OPEN_READ>>), Frame(REQ_OPEN, <<9>>),
     Frame(REQ_READ, <<>>), Frame(REQ_WRITE, <<9>>), Frame(REQ_CLOSE, <<>>)}

InitOpen ==
    /\ InitWith({K85(1, TRUE, OpenMenu)}, {PlainFs})
    /\ ck_in = <<0, 0>>
    /\ ck_out = 0

\* opening, reading, writing and closing in every order
SpecOpen == InitOpen /\ [][NextFile]_vars

\* the step was answered with an error packet and nothing else
ErrorAnswer == \E e \in 1..255 : tx' = <<StdBlock(e)>>
\* no host file was read or modified: the files and the offset of the open
\* file are what they were
HostUntouched == fs' = fs /\ o_file' = o_file

\* C35: a read request returns file data only if the last open answered
\* with success was in read mode and neither a close nor an open attempt
\* has followed it, and a write request stores data only if that open was in
\* write or append mode; in every other state the request is answered with
\* an error packet and no host file is read or modified.
C35_OpenMode ==
    [][/\ (OprCmdStep(REQ_READ) /\ ~ErrorAnswer) => last_open = F_OPEN_READ
       /\ (OprCmdStep(REQ_READ) /\ last_open # F_OPEN_READ)
             => (ErrorAnswer /\ HostUntouched)
       /\ (OprCmdStep(REQ_WRITE) /\ (~ErrorAnswer \/ fs' # fs))
             => last_open \in {F_OPEN_WRITE, F_OPEN_APPEND}
       /\ (OprCmdStep(REQ_WRITE) /\ last_open \notin {F_OPEN_WRITE, F_OPEN_APPEND})
             => (ErrorAnswer /\ HostUntouched)]_vars

\* a read request has returned the three bytes of A.BA
C35_Witness ==
    /\ last.op = "opr" /\ last.ok /\ last.cmd = REQ_READ
    /\ last_open = F_OPEN_READ
    /\ tx = <<Packet(RET_READ, <<1, 2, 3>>)>>

\* ------------------------------------------------------------------------
\* The frames of the Operation-mode responses
\* ------------------------------------------------------------------------

\* a memory-read request for l bytes from the address 0x8004 of the CPU
MemReadFrame(l) == Frame(REQ_MEM_READ, <<1, 128, 4, l>>)
MemReadLens == {0, 1, 251, 252, 253, 255}

\* a TPDD1 client that opens the file A.BA and the directory SUB under its
\* plain name and reads them
FrameMenu1 ==
    {SetName(C_A_BA), SetName(N_SUB), GetFirst, Frame(REQ_OPEN, <<F_OPEN_READ>>),
     Frame(REQ_READ, <<>>), Frame(REQ_CLOSE, <<>>), Frame(REQ_STATUS, <<>>)}
\* a TPDD2 client that reads the memory
FrameMenu2 ==
    {MemReadFrame(l) : l \in MemReadLens}
      \cup {Frame(REQ_STATUS, <<>>), Frame(REQ_VERSION, <<>>),
            Frame(REQ_MEM_WRITE, <<1, 128, 4, 9>>)}

InitFrame ==
    /\ InitWith({K85(1, FALSE, FrameMenu1), K85(2, FALSE, FrameMenu2)}, {PlainFs})
    /\ ck_in = <<0, 0>>
    /\ ck_out = 0

\* the responses to reads of files, directories and memory
SpecFrame == InitFrame /\ [][NextFile]_vars

\* the length byte counts the payload, the last byte is the checksum of all
\* bytes before it
WellFormed(pkt) ==
    /\ Len(pkt) >= 3
    /\ pkt[2] = Len(pkt) - 3
    /\ pkt[Len(pkt)] = 255 - (SumRange(pkt, 1, Len(pkt) - 1) % 256)

\* C36 as stated: every Operation-mode response is a well-formed frame, also
\* when the read of the host file fails and for a memory-read request with
\* any data length 0..255.
C36_AsStated ==
    [][last'.op = "opr" => \A i \in 1..Len(tx') : WellFormed(tx'[i])]_vars

\* ------------------------------------------------------------------------
\* The regions of the TPDD2 memory
\* ------------------------------------------------------------------------

MemWriteFrame(a, hi, lo, data) == Frame(REQ_MEM_WRITE, <<a, hi, lo>> \o data)
\* reads and writes inside the 2 KB RAM, across the end of the I/O port, at
\* an address of no region, in the ROM, and in the cache area in and out of
\* range
MemMenu ==
    {MemReadFrame(1), Frame(REQ_MEM_READ, <<1, 0, 31, 2>>),
     Frame(REQ_MEM_READ, <<0, 5, 0, 1>>), Frame(REQ_MEM_READ, <<0, 0, 0, 2>>),
     MemWriteFrame(1, 128, 4, <<9>>), MemWriteFrame(1, 128, 5, <<7, 8>>),
     MemWriteFrame(1, 0, 31, <<9, 9>>), MemWriteFrame(1, 0, 30, <<6>>),
     MemWriteFrame(1, 64, 3, <<9>>), MemWriteFrame(1, 240, 0, <<9>>),
     MemWriteFrame(0, 0, 0, <<7, 8>>), MemWriteFrame(0, 5, 0, <<9>>),
     MemWriteFrame(2, 0, 0, <<9>>)}

InitMem ==
    /\ InitWith({K85(2, FALSE, MemMenu)}, {PlainFs})
    /\ ck_in = <<0, 0>>
    /\ ck_out = 0

\* reading and writing the TPDD2 memory
SpecMem == InitMem /\ [][NextFile]_vars

\* the address and the data length of the memory request at the head of the
\* input
ReqAddr == ReqBlock[4] * 256 + ReqBlock[5]
ReqReadLen == ReqBlock[6]
ReqWriteLen == ReqBlock[2] - 3
\* the request was answered with the parameter error
MemRejected == tx' = <<CacheBlock(ERR_PARAM)>>
\* n bytes from the offset r.off lie inside the region r
Inside(r, n) == r.off + n <= r.len
\* the region the request selects: the 2 KB RAM for the cache area, the
\* region of the address for the CPU area
Selected(r) ==
    IF ReqBlock[3] = 0 THEN r.name = "ram"
    ELSE Region(ReqAddr).name # "none" /\ r.name = Region(ReqAddr).name
\* the stored bytes outside the n bytes from r.off of the region r are kept
OthersKept(r, n) ==
    \A k \in DOMAIN mem \cup DOMAIN mem' :
        (k[1] # r.name \/ k[2] < r.off \/ k[2] >= r.off + n)
            => MemGet(mem', k[1], k[2]) = MemGet(mem, k[1], k[2])

\* C37 as stated: a TPDD2 memory-read or memory-write request is rejected
\* with a parameter error or accesses only bytes inside the one region its
\* address selects, for every address and data length; a memory write never
\* changes the ROM or any state outside the four writable regions.
C37_AsStated ==
    [][/\ (model = 2 /\ OprCmdStep(REQ_MEM_READ))
             => \/ MemRejected
                \/ /\ Selected(mem_read_src(ReqBlock[3], ReqAddr))
                   /\ Inside(mem_read_src(ReqBlock[3], ReqAddr), ReqReadLen)
       /\ (model = 2 /\ OprCmdStep(REQ_MEM_WRITE))
             => /\ \/ MemRejected
                   \/ /\ Selected(mem_write_src(ReqBlock[3], ReqAddr))
                      /\ Inside(mem_write_src(ReqBlock[3], ReqAddr), ReqWriteLen)
                /\ ~crashed'
                /\ \A k \in DOMAIN mem' : k[1] # "rom"
                /\ OthersKept(mem_write_src(ReqBlock[3], ReqAddr), ReqWriteLen)
                /\ UNCHANGED <<operation_mode, in_dme, ch, fs, pwd, cwd, dir_depth,
                               dme_cwd, file_list, cursor, f_static, cur_file,
                               o_file_h, o_file, pdd2_condition, f_open_mode,
                               img, fdc_wait>>]_vars

\* ------------------------------------------------------------------------
\* The open file and the disk-image commands that fail
\* ------------------------------------------------------------------------

\* what a TPDD2 client that reads A.BA and works on the sector cache may send
ImageFailMenu ==
    {SetName(C_A_BA), Frame(REQ_OPEN, <<F_OPEN_READ>>), Frame(REQ_READ, <<>>),
     Frame(REQ_CLOSE, <<>>), Frame(REQ_FORMAT, <<>>),
     CacheFrame(CACHE_LOAD, 0, 0), CacheFrame(CACHE_COMMIT, 0, 0)}

InitImageFail ==
    /\ \/ InitDisk({WithImage(K85(2, FALSE, ImageFailMenu))}, {PlainFs},
                   {ReadOnly(BlankImage(PDD2_RECORDS)), BlankImage(PDD2_RECORDS)})
       \/ InitDisk({K85(2, FALSE, ImageFailMenu)}, {PlainFs}, {NoImage})
    /\ ck_in = <<0, 0>>
    /\ ck_out = 0

\* an open file and disk-image commands that fail
SpecImageFail == InitImageFail /\ [][NextFile]_vars

\* a cache or format request was answered with the error of a missing or a
\* write-protected image, which open_disk_image() returns before open()
FailsBeforeOpen ==
    /\ \/ OprCmdStep(REQ_CACHE)
          /\ tx' \in {<<CacheBlock(ERR_NO_DISK)>>, <<CacheBlock(ERR_WRITE_PROTECT)>>}
       \/ OprCmdStep(REQ_FORMAT)
          /\ tx' \in {<<StdBlock(ERR_NO_DISK)>>, <<StdBlock(ERR_WRITE_PROTECT)>>}
\* the state after the step, as a handler sees it when the block gb arrives
After(gb) ==
    [Cur(<<>>, gb) EXCEPT !.o_file_h = o_file_h', !.o_file = o_file',
                          !.f_open_mode = f_open_mode', !.fs = fs']
\* what a handler sends and leaves of the open file and the host files
Outcome(r) == <<r.tx, r.o_file_h, r.o_file, r.f_open_mode, r.fs>>
ReadBlock == <<REQ_READ, 0, 252>>
WriteBlock == <<REQ_WRITE, 1, 9, 241>>

\* C38 as stated: a disk-image command that fails before the image is opened
\* leaves the open file open and usable: a read or a write request that
\* follows behaves as if the failed command had not been issued.
C38_AsStated ==
    [][(FailsBeforeOpen /\ o_file_h >= 0)
       => /\ o_file_h' = o_file_h
          /\ Outcome(req_read(After(ReadBlock)))
               = Outcome(req_read(Cur(<<>>, ReadBlock)))
          /\ Outcome(req_write(After(WriteBlock)))
               = Outcome(req_write(Cur(<<>>, WriteBlock)))]_vars

\* ------------------------------------------------------------------------
\* Requests without a current file
\* ------------------------------------------------------------------------

\* the requests that use the current file
FileCmds == {REQ_OPEN, REQ_CLOSE, REQ_DELETE, REQ_RENAME}

\* C39 as stated: no checksum-valid request ends the emulator; an open,
\* close, delete or rename request that arrives while there is no current
\* file is answered with an error packet or ignored, and the command loop
\* goes on.
C39_AsStated ==
    [][/\ (last'.op = "opr" /\ last'.ok) => ~crashed'
       /\ (last'.op = "opr" /\ last'.ok /\ last'.cmd \in FileCmds
             /\ cur_file.ptr = "null")
          => (tx' = <<>> \/ ErrorAnswer)]_vars

\* ------------------------------------------------------------------------
\* The name field of a dirent response under each profile
\* ------------------------------------------------------------------------

ATTR_RAW == 32

\* a row of CLIENT_PROFILES: base, ext, pad, attr, dme, magic, upcase
Profile(m, base, ext, pad, attr, dme, magic, up, menu) ==
    [K85(m, dme, menu) EXCEPT !.base_len = base, !.ext_len = ext,
                              !.pad_fn = pad, !.default_attr = attr,
                              !.enable_magic_files = magic, !.upcase = up]

\* raw, k85, wp2, cpm, rexcpm, z88, st
Profiles(m, menu) ==
    {Profile(m, 0, 0, FALSE, ATTR_RAW, FALSE, FALSE, FALSE, menu),
     Profile(m, 6, 2, TRUE, ATTR_DEF, TRUE, TRUE, TRUE, menu),
     Profile(m, 8, 2, TRUE, ATTR_DEF, FALSE, FALSE, FALSE, menu),
     Profile(m, 8, 3, FALSE, ATTR_DEF, FALSE, FALSE, TRUE, menu),
     Profile(m, 6, 2, TRUE, ATTR_DEF, FALSE, FALSE, TRUE, menu),
     Profile(m, 12, 3, FALSE, ATTR_DEF, FALSE, FALSE, FALSE, menu),
     Profile(m, 6, 2, TRUE, ATTR_DEF, FALSE, FALSE, TRUE, menu)}

\* ABCDEFGH.TXT, ABCDEFGHIJKL.TXT and AB.C
N_8_3 == <<65, 66, 67, 68, 69, 70, 71, 72, 46, 84, 88, 84>>
N_12_3 == <<65, 66, 67, 68, 69, 70, 71, 72, 73, 74, 75, 76, 46, 84, 88, 84>>
N_2_1 == <<65, 66, 46, 67>>

\* the host tree with files whose names fill 8.3 and 12.3
WideFs ==
    [p \in DOMAIN PlainFs \cup {<<N_S, N_8_3>>, <<N_S, N_12_3>>, <<N_S, N_2_1>>} |->
        IF p = <<N_S, N_8_3>> THEN FileNode(<<7>>)
        ELSE IF p = <<N_S, N_12_3>> THEN FileNode(<<8, 9>>)
        ELSE IF p = <<N_S, N_2_1>> THEN FileNode(<<>>)
        ELSE IF p = <<N_S>> THEN DirNode(<<N_A_BA, N_8_3, N_12_3, N_2_1, N_SUB>>, TRUE)
        ELSE PlainFs[p]]

\* a client that lists the directory and names a file
WideMenu == {GetFirst, GetNext, SetName(N_8_3), SetName(N_2_1), Frame(REQ_STATUS, <<>>)}

InitWide ==
    /\ InitWith(Profiles(1, WideMenu) \cup Profiles(2, WideMenu), {WideFs})
    /\ ck_in = <<0, 0>>
    /\ ck_out = 0

\* directory listing under every profile
SpecWide == InitWide /\ [][NextFile]_vars

\* the 24-byte name field of a dirent block
NameField(pkt) == SubSeq(pkt, 3, TPDD_FILENAME_LEN + 2)
\* the name n followed by spaces
SpacePadded(n) == n \o Rep(SP, TPDD_FILENAME_LEN - Len(n))

\* C40 as stated: the name field of a dirent response for an entry is the
\* entry's complete client name followed by space padding, under every
\* profile, cpm and z88 included.
C40_AsStated ==
    [][/\ ((DirentStep(DIRENT_GET_FIRST) \/ DirentStep(DIRENT_GET_NEXT))
              /\ cursor' # 0)
          => /\ Len(tx') = 1
             /\ NameField(tx'[1]) = SpacePadded(file_list'[cursor'].client_fname)
       /\ (DirentStep(DIRENT_SET_NAME) /\ cur_file'.ptr = "list")
          => /\ Len(tx') = 1
             /\ NameField(tx'[1]) = SpacePadded(file_list'[cur_file'.idx].client_fname)]_vars

====
